---- MODULE Spec2Model ----
(***************************************************************************)
(* A model of type-router (createRouter): the route matcher, the           *)
(* activation state machine and the two navigation modes (history mode     *)
(* with deferred activation, hash mode with the pending-navigation queue). *)
(*                                                                         *)
(* Strings are sequences of one-character strings, so that splitting,      *)
(* the '//' validation and the compiled regular expressions are computed   *)
(* character by character, as the code computes them.                      *)
(***************************************************************************)
EXTENDS Integers, Sequences, FiniteSets, TLC

(***************************************************************************)
(* Bounds of the model.                                                    *)
(***************************************************************************)
MaxNav == 2
MaxExt == 1
MaxInit == 1

(***************************************************************************)
(* String primitives (String.prototype.includes / split / slice).          *)
(***************************************************************************)
Min(S) == CHOOSE x \in S : \A y \in S : x <= y

Includes(s, c) == \E i \in 1..Len(s) : s[i] = c

IndexOf(s, c) == IF Includes(s, c) THEN Min({i \in 1..Len(s) : s[i] = c}) ELSE 0

\* s.includes('//')
IncludesDoubleSlash(s) == \E i \in 1..(Len(s) - 1) : s[i] = "/" /\ s[i + 1] = "/"

RECURSIVE Split(_, _)
\* s.split(c): every piece between occurrences of c, empty pieces included
Split(s, c) ==
  IF Includes(s, c)
    THEN LET i == IndexOf(s, c)
         IN  <<SubSeq(s, 1, i - 1)>> \o Split(SubSeq(s, i + 1, Len(s)), c)
    ELSE <<s>>

\* the JavaScript value undefined (a missing array element or capture)
Undefined == <<"undefined">>

\* s.split(c)[n] (1-based here), Undefined when there is no such piece
SplitAt(s, c, n) == LET ps == Split(s, c) IN IF n <= Len(ps) THEN ps[n] ELSE Undefined

\* a string is truthy iff it is neither undefined nor empty
Truthy(s) == s # Undefined /\ s # <<>>

\* length of the longest prefix of s made of characters satisfying "not /"
RECURSIVE RunNotSlash(_)
RunNotSlash(s) == IF s = <<>> \/ s[1] = "/" THEN 0 ELSE 1 + RunNotSlash(Tail(s))

\* \w of a JavaScript regular expression, over the characters the model uses
WordChars ==
  {"a", "b", "c", "d", "e", "f", "g", "h", "i", "j", "k", "l", "m", "n", "o", "p", "q",
   "r", "s", "t", "u", "v", "w", "x", "y", "z", "0", "1", "2", "3", "4", "5", "6", "7",
   "8", "9", "_"}

RECURSIVE RunWord(_)
RunWord(s) == IF s = <<>> \/ s[1] \notin WordChars THEN 0 ELSE 1 + RunWord(Tail(s))

(***************************************************************************)
(* Path validation.                                                        *)
(***************************************************************************)
isValidPath(path) == ~IncludesDoubleSlash(path)

(***************************************************************************)
(* Percent decoding (decodeURIComponent, and the decoding URLSearchParams  *)
(* applies to names and values).  PercentCodes is the part of the ASCII    *)
(* table the model covers.                                                 *)
(***************************************************************************)
PercentCodes ==
  { <<"2", "0", " ">>, <<"2", "F", "/">>, <<"3", "F", "?">>, <<"2", "6", "&">>,
    <<"3", "D", "=">>, <<"2", "5", "%">>, <<"2", "3", "#">>, <<"3", "A", ":">>,
    <<"2", "B", "+">>, <<"4", "0", "@">>, <<"5", "B", "[">>, <<"5", "D", "]">>,
    <<"7", "C", "|">> }

HasCode(a, b) == \E t \in PercentCodes : t[1] = a /\ t[2] = b
CodeChar(a, b) == (CHOOSE t \in PercentCodes : t[1] = a /\ t[2] = b)[3]

\* TRUE iff decodeURIComponent(s) throws URIError (a '%' not followed by a code)
RECURSIVE Malformed(_)
Malformed(s) ==
  IF s = <<>> THEN FALSE
  ELSE IF s[1] = "%"
    THEN IF Len(s) >= 3 /\ HasCode(s[2], s[3])
           THEN Malformed(SubSeq(s, 4, Len(s)))
           ELSE TRUE
    ELSE Malformed(Tail(s))

RECURSIVE dec(_)
\* decodeURIComponent(s) for a well-formed s; undefined is first converted to
\* the string "undefined"
dec(s) ==
  IF s = Undefined THEN <<"u", "n", "d", "e", "f", "i", "n", "e", "d">>
  ELSE IF s = <<>> THEN <<>>
  ELSE IF s[1] = "%" /\ Len(s) >= 3 /\ HasCode(s[2], s[3])
    THEN <<CodeChar(s[2], s[3])>> \o dec(SubSeq(s, 4, Len(s)))
    ELSE <<s[1]>> \o dec(Tail(s))

RECURSIVE FormDecode(_)
\* URLSearchParams decoding: '+' is a space, '%XX' is decoded, a malformed
\* '%' is kept as it is
FormDecode(s) ==
  IF s = <<>> THEN <<>>
  ELSE IF s[1] = "+" THEN <<" ">> \o FormDecode(Tail(s))
  ELSE IF s[1] = "%" /\ Len(s) >= 3 /\ HasCode(s[2], s[3])
    THEN <<CodeChar(s[2], s[3])>> \o FormDecode(SubSeq(s, 4, Len(s)))
    ELSE <<s[1]>> \o FormDecode(Tail(s))

\* the characters encodeURIComponent leaves as they are
Unreserved == WordChars \cup {"-", ".", "!", "~", "*", "'", "(", ")"}

RECURSIVE enc(_)
\* encodeURIComponent(s)
enc(s) ==
  IF s = <<>> THEN <<>>
  ELSE IF s[1] \in Unreserved THEN <<s[1]>> \o enc(Tail(s))
  ELSE LET t == CHOOSE t \in PercentCodes : t[3] = s[1]
       IN  <<"%", t[1], t[2]>> \o enc(Tail(s))

(***************************************************************************)
(* Helpers of the router on route paths.                                   *)
(***************************************************************************)
\* path.split('?')[0]
cleanPathPart(path) == SplitAt(path, "?", 1)

SelectNonEmpty(ps) == SelectSeq(ps, LAMBDA p : Len(p) > 0)

\* the declared query parameter names of a route path
getQueryParamKeys(path) ==
  LET queryPart == SplitAt(path, "?", 2)
  IN  IF ~Truthy(queryPart) THEN <<>> ELSE SelectNonEmpty(Split(queryPart, "&"))

(***************************************************************************)
(* The compiled matcher of a route: the regular expression                 *)
(*   ^ pathPart.replace(/:[^/]+/g, '([^/]+)') /?$                          *)
(* as a sequence of tokens: Group for '([^/]+)', every other character of  *)
(* the path part as the regular-expression atom it is.                     *)
(***************************************************************************)
Group == "([^/]+)"

RECURSIVE CompileTokens(_)
CompileTokens(p) ==
  IF p = <<>> THEN <<>>
  ELSE IF p[1] = ":" /\ RunNotSlash(Tail(p)) >= 1
    THEN <<Group>> \o CompileTokens(SubSeq(p, 2 + RunNotSlash(Tail(p)), Len(p)))
    ELSE <<p[1]>> \o CompileTokens(Tail(p))

\* one atom of the regular expression against one character: '.' is the
\* wildcard of the regular expression, every other modelled character is itself
AtomMatches(tok, ch) == IF tok = "." THEN TRUE ELSE tok = ch

RECURSIVE RegexExec(_, _)
\* regex.exec(s): [matched, groups].  A Group is followed in the expression
\* by '/' or by the end, so taking the whole run of non-'/' characters is the
\* only way it can match.
RegexExec(toks, s) ==
  IF toks = <<>>
    THEN [matched |-> (s = <<>> \/ s = <<"/">>), groups |-> <<>>]
  ELSE IF toks[1] = Group
    THEN LET n == RunNotSlash(s)
             rest == RegexExec(Tail(toks), SubSeq(s, n + 1, Len(s)))
         IN  IF n >= 1 /\ rest.matched
               THEN [matched |-> TRUE, groups |-> <<SubSeq(s, 1, n)>> \o rest.groups]
               ELSE [matched |-> FALSE, groups |-> <<>>]
  ELSE IF s # <<>> /\ AtomMatches(toks[1], s[1])
    THEN RegexExec(Tail(toks), Tail(s))
    ELSE [matched |-> FALSE, groups |-> <<>>]

RECURSIVE pathParamKeys(_)
\* cleanPathPart(routePath).match(/:(\w+)/g).map(p => p.slice(1)), given the
\* clean path part
pathParamKeys(p) ==
  IF p = <<>> THEN <<>>
  ELSE IF p[1] = ":" /\ RunWord(Tail(p)) >= 1
    THEN <<SubSeq(p, 2, 1 + RunWord(Tail(p)))>>
           \o pathParamKeys(SubSeq(p, 2 + RunWord(Tail(p)), Len(p)))
    ELSE pathParamKeys(Tail(p))

(***************************************************************************)
(* Values: params objects, route states, the routes of the router.         *)
(***************************************************************************)
\* the JavaScript value null, where a path or a query value may be null
Null == <<"null">>

\* a route is named by its position in the routes array; NoRoute is null
NoRoute == 0

emptyParams == [k \in {} |-> <<>>]

\* params[key] = value
SetParam(params, key, value) ==
  [k \in (DOMAIN params) \cup {key} |-> IF k = key THEN value ELSE params[k]]

RouteState(path, route, params) == [path |-> path, route |-> route, params |-> params]

\* the route table the router of the state machine is created with
Routes ==
  << [path |-> <<"/">>],
     [path |-> <<"/", "a">>],
     [path |-> <<"/", "u", "/", "x">>],
     [path |-> <<"/", "u", "/", ":", "i", "?", "q">>],
     [path |-> <<"/", "n">>] >>

\* routes.find((r) => r.path === path): the first route with that path, or
\* NoRoute
FindRoute(routes, path) ==
  IF \E i \in 1..Len(routes) : routes[i].path = path
    THEN Min({i \in 1..Len(routes) : routes[i].path = path})
    ELSE NoRoute

RECURSIVE MatchersFrom(_, _)
\* the entries of the matchers Map in iteration order: a Map keeps a key at
\* the position of its first insertion
MatchersFrom(routes, i) ==
  IF i > Len(routes) THEN <<>>
  ELSE LET path == routes[i].path
           entry == [path |-> path, regex |-> CompileTokens(cleanPathPart(path))]
       IN  IF \E j \in 1..(i - 1) : routes[j].path = path
             THEN MatchersFrom(routes, i + 1)
             ELSE <<entry>> \o MatchersFrom(routes, i + 1)

\* buildRouteMatchers, were it to compile the paths without validating them
buildRouteMatchers_Unchecked(routes) ==
  [threw |-> FALSE, path |-> Null, matchers |-> MatchersFrom(routes, 1)]

\* buildRouteMatchers(routes): [threw, path, matchers]; throws 'Invalid path'
\* for the first route whose path has an empty segment
buildRouteMatchers(routes) ==
  IF \E i \in 1..Len(routes) : ~isValidPath(routes[i].path)
    THEN [threw |-> TRUE,
          path |-> routes[Min({i \in 1..Len(routes) : ~isValidPath(routes[i].path)})].path,
          matchers |-> <<>>]
    ELSE [threw |-> FALSE, path |-> Null, matchers |-> MatchersFrom(routes, 1)]

(***************************************************************************)
(* URLSearchParams(queryString).get(name)                                  *)
(***************************************************************************)
\* one 'name' or 'name=value' piece as a decoded [name, value] pair
QueryEntry(piece) ==
  LET i == IndexOf(piece, "=")
  IN  IF i = 0
        THEN [name |-> FormDecode(piece), value |-> <<>>]
        ELSE [name |-> FormDecode(SubSeq(piece, 1, i - 1)),
              value |-> FormDecode(SubSeq(piece, i + 1, Len(piece)))]

RECURSIVE QueryEntries(_)
QueryEntries(pieces) ==
  IF pieces = <<>> THEN <<>>
  ELSE <<QueryEntry(pieces[1])>> \o QueryEntries(Tail(pieces))

\* the value of the first pair named name, Null if there is none
SearchParamsGet(queryString, name) ==
  LET es == QueryEntries(SelectNonEmpty(Split(queryString, "&")))
  IN  IF \E i \in 1..Len(es) : es[i].name = name
        THEN es[Min({i \in 1..Len(es) : es[i].name = name})].value
        ELSE Null

(***************************************************************************)
(* getRouteWithParams                                                      *)
(***************************************************************************)
RECURSIVE ExtractPathParams(_, _, _, _)
\* pathParamKeys.forEach((key, index) => params[key] = dec(match[index + 1]))
ExtractPathParams(keys, groups, index, params) ==
  IF index > Len(keys) THEN params
  ELSE ExtractPathParams(keys, groups, index + 1,
         SetParam(params, keys[index],
                  dec(IF index <= Len(groups) THEN groups[index] ELSE Undefined)))

RECURSIVE ExtractQueryParams_Overwrite(_, _, _, _)
RECURSIVE ExtractQueryParams_AbsentAsKey(_, _, _, _)
\* the loop over declaredQueryParams, were it to let the query value
\* overwrite a path parameter of the same name
ExtractQueryParams_Overwrite(declared, queryString, index, params) ==
  IF index > Len(declared) THEN params
  ELSE ExtractQueryParams_Overwrite(declared, queryString, index + 1,
         IF SearchParamsGet(queryString, declared[index]) # Null
           THEN SetParam(params, declared[index],
                         SearchParamsGet(queryString, declared[index]))
           ELSE params)

\* the loop over declaredQueryParams, were it to write every declared name,
\* an absent one with the string of the null it got
ExtractQueryParams_AbsentAsKey(declared, queryString, index, params) ==
  IF index > Len(declared) THEN params
  ELSE ExtractQueryParams_AbsentAsKey(declared, queryString, index + 1,
         IF declared[index] \notin DOMAIN params
           THEN SetParam(params, declared[index],
                         IF SearchParamsGet(queryString, declared[index]) = Null
                           THEN <<"n", "u", "l", "l">>
                           ELSE SearchParamsGet(queryString, declared[index]))
           ELSE params)

\* the loop, were no declared query parameter written to params
ExtractQueryParams_None(declared, queryString, index, params) == params

RECURSIVE ExtractQueryParams(_, _, _, _)
\* the loop over declaredQueryParams
ExtractQueryParams(declared, queryString, index, params) ==
  IF index > Len(declared) THEN params
  ELSE LET queryParam == declared[index]
           value == SearchParamsGet(queryString, queryParam)
       IN  ExtractQueryParams(declared, queryString, index + 1,
             IF value # Null /\ queryParam \notin DOMAIN params
               THEN SetParam(params, queryParam, value)
               ELSE params)

Max(S) == CHOOSE x \in S : \A y \in S : y <= x

\* the loop, were it to go on to the last matcher whose regex matches
FirstMatch_Last(matchers, cleanPath) ==
  IF \E i \in 1..Len(matchers) : RegexExec(matchers[i].regex, cleanPath).matched
    THEN Max({i \in 1..Len(matchers) : RegexExec(matchers[i].regex, cleanPath).matched})
    ELSE 0

\* index of the first matcher whose regex matches, 0 if none does
FirstMatch(matchers, cleanPath) ==
  IF \E i \in 1..Len(matchers) : RegexExec(matchers[i].regex, cleanPath).matched
    THEN Min({i \in 1..Len(matchers) : RegexExec(matchers[i].regex, cleanPath).matched})
    ELSE 0

NoError == [kind |-> "none", path |-> Null, fallback |-> Undefined]

\* what getRouteWithParams(path) does:
\*   status "ok": it returns route and params,
\*   status "invalid" / "notfound" / "urierror": it throws error;
\* missed tells whether it called onMiss (with cleanPath).
Thrown(status, kind, cleanPath, fallback, missed) ==
  [status |-> status, missed |-> missed, cleanPath |-> cleanPath, route |-> NoRoute,
   params |-> emptyParams, realPath |-> Null,
   error |-> [kind |-> kind, path |-> cleanPath, fallback |-> fallback]]

Returned(route, params, realPath, cleanPath, missed) ==
  [status |-> "ok", missed |-> missed, cleanPath |-> cleanPath, route |-> route,
   params |-> params, realPath |-> realPath, error |-> NoError]

\* the body of the loop for the matcher that matched: groups are match[1..],
\* keys the pathParamKeys of the route
MatchedRoute(routes, path, cleanPath, queryString, routePath, groups, keys) ==
  IF \E i \in 1..Len(keys) : i <= Len(groups) /\ Malformed(groups[i])
    THEN Thrown("urierror", "URIError", cleanPath, Undefined, FALSE)
    ELSE Returned(FindRoute(routes, routePath),
                  IF Truthy(queryString)
                    THEN ExtractQueryParams(getQueryParamKeys(routePath), queryString, 1,
                                            ExtractPathParams(keys, groups, 1, emptyParams))
                    ELSE ExtractPathParams(keys, groups, 1, emptyParams),
                  path, cleanPath, FALSE)

\* getRouteWithParams, were a miss without a fallback to fall back on the
\* first route instead of throwing
MissedRoute_Swallow(cleanPath, fallback, fallbackRoute) ==
  IF Truthy(fallback) /\ fallbackRoute # NoRoute
    THEN Returned(fallbackRoute, emptyParams, cleanPath, cleanPath, TRUE)
    ELSE Returned(1, emptyParams, cleanPath, cleanPath, TRUE)

\* getRouteWithParams, were the error of a miss not to name the fallback
\* path that is no route
MissedRoute_FallbackUnnamed(cleanPath, fallback, fallbackRoute) ==
  IF Truthy(fallback) /\ fallbackRoute # NoRoute
    THEN Returned(fallbackRoute, emptyParams, cleanPath, cleanPath, TRUE)
    ELSE Thrown("notfound", "No route found for path", cleanPath, Undefined, TRUE)

\* after the loop: onMiss has been called, the fallback route is used if it
\* is a route
MissedRoute(cleanPath, fallback, fallbackRoute) ==
  IF Truthy(fallback) /\ fallbackRoute # NoRoute
    THEN Returned(fallbackRoute, emptyParams, cleanPath, cleanPath, TRUE)
    ELSE Thrown("notfound", "No route found for path", cleanPath,
                IF Truthy(fallback) THEN fallback ELSE Undefined, TRUE)

\* the loop over the matchers, m being the first that matches (0: none)
MatchLoop(routes, fallback, path, cleanPath, queryString, matchers, m) ==
  IF m # 0
    THEN MatchedRoute(routes, path, cleanPath, queryString, matchers[m].path,
                      RegexExec(matchers[m].regex, cleanPath).groups,
                      pathParamKeys(cleanPathPart(matchers[m].path)))
    ELSE MissedRoute(cleanPath, fallback, FindRoute(routes, fallback))

SplitAndMatch(routes, fallback, path, cleanPath, queryString, matchers) ==
  IF ~isValidPath(cleanPath)
    THEN Thrown("invalid", "Invalid path", cleanPath, Undefined, FALSE)
    ELSE MatchLoop(routes, fallback, path, cleanPath, queryString, matchers,
                   FirstMatch(matchers, cleanPath))

\* getRouteWithParams, were the matchers run on the path with its query
getRouteWithParams_FullPath(routes, fallback, path) ==
  SplitAndMatch(routes, fallback, path, path, SplitAt(path, "?", 2), MatchersFrom(routes, 1))

getRouteWithParams(routes, fallback, path) ==
  SplitAndMatch(routes, fallback, path, SplitAt(path, "?", 1), SplitAt(path, "?", 2),
                MatchersFrom(routes, 1))

(***************************************************************************)
(* computePath and the path navigate goes to.  A params object is a        *)
(* function from the names it has to their values.                         *)
(***************************************************************************)
\* an optional argument: NoParams when it is left out, Some(params) when an
\* object is passed; The(some) is the object
NoParams == {}
Some(params) == {params}
The(some) == CHOOSE params \in some : TRUE

\* params[key], Undefined when params has no such key
Lookup(params, key) == IF key \in DOMAIN params THEN params[key] ELSE Undefined

\* value || ''
OrEmpty(value) == IF Truthy(value) THEN value ELSE <<>>

RECURSIVE Substitute(_, _)
\* pathPart.replace(/:(\w+)/g, (_, key) => enc(params[key] || ''))
Substitute(p, params) ==
  IF p = <<>> THEN <<>>
  ELSE IF p[1] = ":" /\ RunWord(Tail(p)) >= 1
    THEN enc(OrEmpty(Lookup(params, SubSeq(p, 2, 1 + RunWord(Tail(p))))))
           \o Substitute(SubSeq(p, 2 + RunWord(Tail(p)), Len(p)), params)
    ELSE <<p[1]>> \o Substitute(Tail(p), params)

RECURSIVE QueryPairs_EmitEmpty(_, _, _)
\* the queryPairs array, were a declared name without a value emitted as 'name='
QueryPairs_EmitEmpty(queryParams, params, index) ==
  IF index > Len(queryParams) THEN <<>>
  ELSE << enc(queryParams[index]) \o <<"=">>
            \o (IF Lookup(params, queryParams[index]) # Undefined
                  THEN enc(Lookup(params, queryParams[index]))
                  ELSE <<>>) >>
         \o QueryPairs_EmitEmpty(queryParams, params, index + 1)

RECURSIVE QueryPairs(_, _, _)
\* the queryPairs array: 'enc(name)=enc(value)' for every declared query
\* parameter, from index on, whose value is not undefined
QueryPairs(queryParams, params, index) ==
  IF index > Len(queryParams) THEN <<>>
  ELSE IF Lookup(params, queryParams[index]) # Undefined
    THEN << enc(queryParams[index]) \o <<"=">> \o enc(Lookup(params, queryParams[index])) >>
           \o QueryPairs(queryParams, params, index + 1)
    ELSE QueryPairs(queryParams, params, index + 1)

RECURSIVE Join(_, _)
\* pieces.join(sep)
Join(pieces, sep) ==
  IF pieces = <<>> THEN <<>>
  ELSE IF Len(pieces) = 1 THEN pieces[1]
  ELSE pieces[1] \o <<sep>> \o Join(Tail(pieces), sep)

\* (queryPairs.length > 0 ? `?${queryPairs.join('&')}` : '')
QuerySuffix(queryPairs) ==
  IF Len(queryPairs) > 0 THEN <<"?">> \o Join(queryPairs, "&") ELSE <<>>

computePath(path, params) ==
  IF params = NoParams THEN path
  ELSE Substitute(SplitAt(path, "?", 1), The(params))
         \o (IF Truthy(SplitAt(path, "?", 2))
               THEN QuerySuffix(QueryPairs(getQueryParamKeys(path), The(params), 1))
               ELSE <<>>)

\* findFullRoutePathForPathOnly, were no route found for a path-only pattern
findFullRoutePathForPathOnly_None(pathOnlyPattern, routes) == Null

\* the route path findFullRoutePathForPathOnly returns: of the first route
\* whose path part is the template given, or matches the concrete path given
findFullRoutePathForPathOnly(pathOnlyPattern, routes) ==
  LET found ==
        {i \in 1..Len(routes) :
           IF Includes(pathOnlyPattern, ":")
             THEN cleanPathPart(routes[i].path) = pathOnlyPattern
             ELSE RegexExec(CompileTokens(cleanPathPart(routes[i].path)),
                            pathOnlyPattern).matched}
  IN  IF found = {} THEN Null ELSE routes[Min(found)].path

\* pathStr of navigate(path, paramsToSub) for a path without '?', given
\* fullRoutePath
PathOnlyStr(path, paramsToSub, fullRoutePath) ==
  IF fullRoutePath # Null /\ Truthy(fullRoutePath) /\ Includes(fullRoutePath, "?")
    THEN IF Includes(path, ":")
           THEN computePath(fullRoutePath, paramsToSub)
           ELSE path \o QuerySuffix(QueryPairs(getQueryParamKeys(fullRoutePath),
                                               The(paramsToSub), 1))
    ELSE computePath(path, paramsToSub)

\* pathStr of navigate(path, paramsToSub)
PathStr(routes, path, paramsToSub) ==
  IF paramsToSub = NoParams THEN path
  ELSE IF ~Includes(path, "?")
    THEN PathOnlyStr(path, paramsToSub, findFullRoutePathForPathOnly(path, routes))
    ELSE computePath(path, paramsToSub)

(***************************************************************************)
(* shallowEqual                                                            *)
(***************************************************************************)
\* shallowEqual, were two objects never found equal
shallowEqual_Never(obj1, obj2) == FALSE

\* shallowEqual, were the values not compared
shallowEqual_KeysOnly(obj1, obj2) == DOMAIN obj1 = DOMAIN obj2

shallowEqual(obj1, obj2) ==
  LET keys1 == DOMAIN obj1
      keys2 == DOMAIN obj2
  IN  IF Cardinality(keys1) # Cardinality(keys2) THEN FALSE
      ELSE \A key \in keys1 : key \in keys2 /\ obj1[key] = obj2[key]

(***************************************************************************)
(* Callbacks.  Every hook (the global ones of the options, the ones of     *)
(* each route, onMiss) and every subscriber is an observer: a call is      *)
(* recorded as an event with its arguments and with what getState()        *)
(* returns while it runs (seen).  who is the route a hook is called for,   *)
(* or the subscriber called; arg is the state handed to a subscriber.      *)
(***************************************************************************)
NoState == RouteState(Null, NoRoute, emptyParams)

Event(cb, who, params, prev, path, arg, seen) ==
  [cb |-> cb, who |-> who, params |-> params, prev |-> prev, path |-> path,
   arg |-> arg, seen |-> seen]

\* the notification, were every subscriber called twice
NotifySubscribers_Twice(subs, state) ==
  [i \in 1..(2 * Len(subs)) |->
     Event("subscriber", subs[(i + 1) \div 2], state.params, emptyParams, state.path,
           state, state)]

\* subscribers.forEach((subscriber) => subscriber(currState)), in the
\* insertion order of the Set
NotifySubscribers(subs, state) ==
  [i \in 1..Len(subs) |->
     Event("subscriber", subs[i], state.params, emptyParams, state.path, state, state)]

OnMissEvent(cleanPath, seen) ==
  Event("onMiss", NoRoute, emptyParams, emptyParams, cleanPath, NoState, seen)

\* activateRoute, were the onEnter hooks called before the onExit hooks
activateRoute_EnterBeforeExit(st, subs, path, route, params) ==
  LET currRoute == st.route
      currParams == st.params
      call == <<Event("activateRoute", route, params, emptyParams, path, NoState, st)>>
      changed == [st EXCEPT !.params = params, !.path = path]
      entered == RouteState(path, route, params)
      exits == IF currRoute # NoRoute
                 THEN << Event("options.onExit", currRoute, currParams, emptyParams,
                               Null, NoState, st),
                         Event("route.onExit", currRoute, currParams, emptyParams,
                               Null, NoState, st) >>
                 ELSE <<>>
      enters == << Event("options.onEnter", route, params, emptyParams, Null, NoState, st),
                   Event("route.onEnter", route, params, emptyParams, Null, NoState, st) >>
  IN  IF currRoute # NoRoute /\ currRoute = route
        THEN IF ~shallowEqual(params, currParams)
               THEN [state |-> changed,
                     trace |-> call
                       \o << Event("options.onParamChange", route, params, currParams,
                                   Null, NoState, st),
                             Event("route.onParamChange", route, params, currParams,
                                   Null, NoState, st) >>
                       \o NotifySubscribers(subs, changed)]
               ELSE [state |-> st, trace |-> call]
        ELSE [state |-> entered,
              trace |-> call \o enters \o exits \o NotifySubscribers(subs, entered)]

\* activateRoute, were onParamChange handed the new params as the previous ones
activateRoute_PrevIsNew(st, subs, path, route, params) ==
  LET currRoute == st.route
      currParams == st.params
      call == <<Event("activateRoute", route, params, emptyParams, path, NoState, st)>>
      changed == [st EXCEPT !.params = params, !.path = path]
      entered == RouteState(path, route, params)
      exits == IF currRoute # NoRoute
                 THEN << Event("options.onExit", currRoute, currParams, emptyParams,
                               Null, NoState, st),
                         Event("route.onExit", currRoute, currParams, emptyParams,
                               Null, NoState, st) >>
                 ELSE <<>>
      enters == << Event("options.onEnter", route, params, emptyParams, Null, NoState, st),
                   Event("route.onEnter", route, params, emptyParams, Null, NoState, st) >>
  IN  IF currRoute # NoRoute /\ currRoute = route
        THEN IF ~shallowEqual(params, currParams)
               THEN [state |-> changed,
                     trace |-> call
                       \o << Event("options.onParamChange", route, params, params,
                                   Null, NoState, st),
                             Event("route.onParamChange", route, params, params,
                                   Null, NoState, st) >>
                       \o NotifySubscribers(subs, changed)]
               ELSE [state |-> st, trace |-> call]
        ELSE [state |-> entered,
              trace |-> call \o exits \o enters \o NotifySubscribers(subs, entered)]

\* activateRoute, were the subscribers notified on a repeated activation too
activateRoute_RepeatNotifies(st, subs, path, route, params) ==
  LET currRoute == st.route
      currParams == st.params
      call == <<Event("activateRoute", route, params, emptyParams, path, NoState, st)>>
      changed == [st EXCEPT !.params = params, !.path = path]
      entered == RouteState(path, route, params)
      exits == IF currRoute # NoRoute
                 THEN << Event("options.onExit", currRoute, currParams, emptyParams,
                               Null, NoState, st),
                         Event("route.onExit", currRoute, currParams, emptyParams,
                               Null, NoState, st) >>
                 ELSE <<>>
      enters == << Event("options.onEnter", route, params, emptyParams, Null, NoState, st),
                   Event("route.onEnter", route, params, emptyParams, Null, NoState, st) >>
  IN  IF currRoute # NoRoute /\ currRoute = route
        THEN IF ~shallowEqual(params, currParams)
               THEN [state |-> changed,
                     trace |-> call
                       \o << Event("options.onParamChange", route, params, currParams,
                                   Null, NoState, st),
                             Event("route.onParamChange", route, params, currParams,
                                   Null, NoState, st) >>
                       \o NotifySubscribers(subs, changed)]
               ELSE [state |-> st, trace |-> call \o NotifySubscribers(subs, st)]
        ELSE [state |-> entered,
              trace |-> call \o exits \o enters \o NotifySubscribers(subs, entered)]

(***************************************************************************)
(* activateRoute(path, route, params) in state st with the subscribers     *)
(* subs: the new currState and the calls made, in order.  The first event  *)
(* marks the call itself.                                                  *)
(***************************************************************************)
activateRoute(st, subs, path, route, params) ==
  LET currRoute == st.route
      currParams == st.params
      call == <<Event("activateRoute", route, params, emptyParams, path, NoState, st)>>
      changed == [st EXCEPT !.params = params, !.path = path]
      entered == RouteState(path, route, params)
      exits == IF currRoute # NoRoute
                 THEN << Event("options.onExit", currRoute, currParams, emptyParams,
                               Null, NoState, st),
                         Event("route.onExit", currRoute, currParams, emptyParams,
                               Null, NoState, st) >>
                 ELSE <<>>
      enters == << Event("options.onEnter", route, params, emptyParams, Null, NoState, st),
                   Event("route.onEnter", route, params, emptyParams, Null, NoState, st) >>
  IN  IF currRoute # NoRoute /\ currRoute = route
        THEN IF ~shallowEqual(params, currParams)
               THEN [state |-> changed,
                     trace |-> call
                       \o << Event("options.onParamChange", route, params, currParams,
                                   Null, NoState, st),
                             Event("route.onParamChange", route, params, currParams,
                                   Null, NoState, st) >>
                       \o NotifySubscribers(subs, changed)]
               ELSE [state |-> st, trace |-> call]
        ELSE [state |-> entered,
              trace |-> call \o exits \o enters \o NotifySubscribers(subs, entered)]

(***************************************************************************)
(* handleUrlChange(path): throws what getRouteWithParams throws, else      *)
(* activates and resolves the oldest pending navigation, if any.           *)
(* resolved lists the navigations resolved, each with the state its        *)
(* promise is resolved with (getState() at that moment).                   *)
(***************************************************************************)
Resolution(nav, state, missed) ==
  [nav |-> [nav EXCEPT !.onMissCalls = @ + (IF missed THEN 1 ELSE 0)], state |-> state]

\* handleUrlChange, were it to resolve the newest pending navigation
ShiftPending_Newest(pending, r, miss, act) ==
  [threw |-> FALSE, error |-> NoError, state |-> act.state, trace |-> miss \o act.trace,
   pending |-> IF Len(pending) > 0 THEN SubSeq(pending, 1, Len(pending) - 1) ELSE pending,
   resolved |-> IF Len(pending) > 0
                  THEN <<Resolution(pending[Len(pending)], act.state, r.missed)>>
                  ELSE <<>>]

\* handleUrlChange, were it to resolve the oldest pending navigation and
\* leave it in the queue
ShiftPending_Keeps(pending, r, miss, act) ==
  [threw |-> FALSE, error |-> NoError, state |-> act.state, trace |-> miss \o act.trace,
   pending |-> pending,
   resolved |-> IF Len(pending) > 0
                  THEN <<Resolution(Head(pending), act.state, r.missed)>>
                  ELSE <<>>]

\* the part of handleUrlChange after activateRoute has returned act
ShiftPending(pending, r, miss, act) ==
  [threw |-> FALSE, error |-> NoError, state |-> act.state, trace |-> miss \o act.trace,
   pending |-> IF Len(pending) > 0 THEN Tail(pending) ELSE pending,
   resolved |-> IF Len(pending) > 0
                  THEN <<Resolution(Head(pending), act.state, r.missed)>>
                  ELSE <<>>]

\* handleUrlChange, were it to activate the route with the path without
\* its query
HandleMatched_CleanPath(st, subs, pending, path, r, miss) ==
  IF r.status # "ok"
    THEN [threw |-> TRUE, error |-> r.error, state |-> st, trace |-> miss,
          pending |-> pending, resolved |-> <<>>]
    ELSE ShiftPending(pending, r, miss,
                      activateRoute(st, subs, r.cleanPath, r.route, r.params))

\* the part of handleUrlChange after getRouteWithParams has done r
HandleMatched(st, subs, pending, path, r, miss) ==
  IF r.status # "ok"
    THEN [threw |-> TRUE, error |-> r.error, state |-> st, trace |-> miss,
          pending |-> pending, resolved |-> <<>>]
    ELSE ShiftPending(pending, r, miss, activateRoute(st, subs, path, r.route, r.params))

MissTrace(r, st) == IF r.missed THEN <<OnMissEvent(r.cleanPath, st)>> ELSE <<>>

HandleResult(st, subs, pending, path, r) ==
  HandleMatched(st, subs, pending, path, r, MissTrace(r, st))

handleUrlChange(rts, st, subs, pending, fallback, path) ==
  HandleResult(st, subs, pending, path, getRouteWithParams(rts, fallback, path))

\* what one more listener adds to what the listeners before it did
AfterListener(done, h) ==
  [state |-> h.state, trace |-> done.trace \o h.trace, pending |-> h.pending,
   resolved |-> done.resolved \o h.resolved]

RECURSIVE Dispatch(_, _, _, _, _, _)
\* one location-change event delivered to n more registered listeners, each
\* of which runs handleUrlChange(path); an exception ends that listener only
Dispatch(n, rts, done, subs, fallback, path) ==
  IF n = 0 THEN done
  ELSE Dispatch(n - 1, rts,
                AfterListener(done, handleUrlChange(rts, done.state, subs, done.pending,
                                                    fallback, path)),
                subs, fallback, path)

NothingDone(st, pending) ==
  [state |-> st, trace |-> <<>>, pending |-> pending, resolved |-> <<>>]

(***************************************************************************)
(* The host: the location of the page and its change events.               *)
(* In history mode location is pathname + search, in hash mode it is       *)
(* location.hash ('' or '#...').                                           *)
(***************************************************************************)
\* getPath, were an empty hash path not replaced by '/'
HashPathOrRoot_Empty(hashPath) == hashPath

HashPathOrRoot(hashPath) == IF Truthy(hashPath) THEN hashPath ELSE <<"/">>

getPath(type, loc) ==
  IF type = "history" THEN loc ELSE HashPathOrRoot(SubSeq(loc, 2, Len(loc)))

\* the fragment named by the value assigned to location.hash
Fragment(value) == IF Len(value) > 0 /\ value[1] = "#" THEN Tail(value) ELSE value

\* the value of location.hash after location.hash = value
HashAfterSet(value) ==
  IF Fragment(value) = <<>> THEN <<>> ELSE <<"#">> \o Fragment(value)

(***************************************************************************)
(* The state of one router and of its host.                                *)
(*                                                                         *)
(* A navigation that returned a pending promise is an entry of             *)
(* pendingNavigations (hash mode) or of timers (history mode) until it is  *)
(* resolved.  Beside what the code stores (path and resolve, here id), an  *)
(* entry records what navigate computed for it: route, params, whether     *)
(* the matcher missed, how often onMiss was called for it, and whether it  *)
(* was issued after init().                                                *)
(***************************************************************************)
VARIABLES
  routes,              \* the routes array the router is created with
  urlType,             \* options.urlType: "hash" or "history"
  fallbackPath,        \* options.fallbackPath, Undefined when not configured
  autoInit,            \* options.autoInit
  location,            \* the location of the page (see getPath)
  currState,           \* currState
  subscribers,         \* the subscribers Set, in insertion order
  pendingNavigations,  \* the pendingNavigations array, oldest first
  timers,              \* the setTimeout(..., 0) tasks not yet run, oldest first
  notifications,       \* location-change events raised and not yet dispatched
  listeners,           \* listeners init() has registered for those events
  issued,              \* navigations that returned a promise so far
  extChanges,          \* location changes made by the user so far
  settled,             \* the promises the last operation resolved, in order
  trace,               \* the callbacks the last operation invoked, in order
  last                 \* the last operation and how it ended

vars == <<routes, urlType, fallbackPath, autoInit, location, currState, subscribers, pendingNavigations,
          timers, notifications, listeners, issued, extChanges, settled, trace, last>>

(***************************************************************************)
(* Inputs.                                                                 *)
(***************************************************************************)
P_root == <<"/">>
P_a == <<"/", "a">>
P_u1 == <<"/", "u", "/", "1">>
P_u2 == <<"/", "u", "/", "2">>
P_u1q5 == <<"/", "u", "/", "1", "?", "q", "=", "5">>
P_n == <<"/", "n">>
P_z == <<"/", "z">>
P_aab == <<"/", "a", "/", "/", "b">>
P_zq == <<"/", "z", "?", "k", "=", "/", "/">>
P_missing == <<"/", "4">>
P_rootk == <<"/", "?", "k", "=", "1">>

\* the paths navigate / navigateAny are called with
NavPaths == {P_a, P_u1, P_u1q5, P_z, P_aab, P_zq, P_rootk}

\* the paths the user moves the page to (back / forward, an edited hash)
ExtPaths == {P_u2, P_z}

\* the values of options.fallbackPath: none, a registered route, a path that
\* is no route
FallbackPaths == {Undefined, P_n, P_missing}

\* the location the page has when the router is created
StartLocation(type) == IF type = "history" THEN P_root ELSE <<>>

\* the callbacks subscribe is called with
Callbacks == {1}

\* an operation and how it ended; input is what navigate was called with
Op(op, id, path, outcome, error) ==
  [op |-> op, id |-> id, path |-> path, outcome |-> outcome, error |-> error,
   input |-> Null]

Called(input, op) == [op EXCEPT !.input = input]

\* the arguments of navigate(path, paramsToSub); params is NoParams when
\* none are given
Args(path, params) == [path |-> path, params |-> params]

(***************************************************************************)
(* createRouter(routes, {urlType, fallbackPath, autoInit: false, ...})     *)
(***************************************************************************)
Created ==
  /\ autoInit = FALSE
  /\ location = StartLocation(urlType)
  /\ currState = RouteState(Null, NoRoute, emptyParams)
  /\ subscribers = <<>>
  /\ pendingNavigations = <<>>
  /\ timers = <<>>
  /\ notifications = 0
  /\ listeners = 0
  /\ issued = 0
  /\ extChanges = 0
  /\ settled = <<>>
  /\ trace = <<>>
  /\ last = Op("createRouter", 0, Null, "ok", NoError)

Init ==
  /\ routes = Routes
  /\ urlType \in {"hash", "history"}
  /\ fallbackPath \in FallbackPaths
  /\ Created

config == <<routes, urlType, fallbackPath, autoInit>>

(***************************************************************************)
(* navigate(path) and navigateAny(path) with a concrete path               *)
(***************************************************************************)
\* the navigation a pending promise belongs to
Navigation(id, pathStr, r, afterInit) ==
  [id |-> id, path |-> pathStr, route |-> r.route, params |-> r.params,
   missed |-> r.missed, onMissCalls |-> IF r.missed THEN 1 ELSE 0,
   afterInit |-> afterInit]

\* history mode, were the location changed by the deferred task only
PushState_Later(pathStr, nav) ==
  /\ location' = location
  /\ timers' = Append(timers, nav)
  /\ UNCHANGED <<pendingNavigations, notifications>>

\* history mode: pushState, then setTimeout
PushState(pathStr, nav) ==
  /\ location' = pathStr
  /\ timers' = Append(timers, nav)
  /\ UNCHANGED <<pendingNavigations, notifications>>

\* hash mode: the navigation is queued and location.hash is assigned; the
\* host raises hashchange when the hash has changed
AssignHash(hash, nav) ==
  /\ pendingNavigations' = Append(pendingNavigations, nav)
  /\ location' = hash
  /\ notifications' = IF hash # location THEN notifications + 1 ELSE notifications
  /\ UNCHANGED timers

\* navigate, were the path validated only after the location was changed
NavigateMatched_ValidatesLate(input, pathStr, r) ==
  /\ trace' = MissTrace(r, currState)
  /\ settled' = <<>>
  /\ IF r.status # "ok"
       THEN /\ last' = Called(input, Op("navigate", 0, pathStr, "threw", r.error))
            /\ UNCHANGED <<config, location, currState, subscribers, pendingNavigations,
                           timers, notifications, listeners, issued, extChanges>>
     ELSE IF ~isValidPath(pathStr)
       THEN /\ last' = Called(input, Op("navigate", 0, pathStr, "rejected",
                                         [kind |-> "Invalid path", path |-> pathStr,
                                          fallback |-> Undefined]))
            /\ location' = IF urlType = "history" THEN pathStr ELSE HashAfterSet(pathStr)
            /\ UNCHANGED <<config, currState, subscribers, pendingNavigations,
                           timers, notifications, listeners, issued, extChanges>>
     ELSE /\ issued < MaxNav
          /\ issued' = issued + 1
          /\ last' = Called(input, Op("navigate", issued + 1, pathStr, "pending", NoError))
          /\ IF urlType = "history"
               THEN PushState(pathStr, Navigation(issued + 1, pathStr, r, listeners > 0))
               ELSE AssignHash(HashAfterSet(pathStr),
                               Navigation(issued + 1, pathStr, r, listeners > 0))
          /\ UNCHANGED <<config, currState, subscribers, listeners, extChanges>>

\* navigate after getRouteWithParams(pathStr) has done r
NavigateMatched(input, pathStr, r) ==
  /\ trace' = MissTrace(r, currState)
  /\ settled' = <<>>
  /\ IF r.status # "ok"
       THEN \* getRouteWithParams throws out of navigate
            /\ last' = Called(input, Op("navigate", 0, pathStr, "threw", r.error))
            /\ UNCHANGED <<config, location, currState, subscribers, pendingNavigations,
                           timers, notifications, listeners, issued, extChanges>>
     ELSE IF ~isValidPath(pathStr)
       THEN \* validatePath throws in the executor: the promise is rejected
            /\ last' = Called(input, Op("navigate", 0, pathStr, "rejected",
                                         [kind |-> "Invalid path", path |-> pathStr,
                                          fallback |-> Undefined]))
            /\ UNCHANGED <<config, location, currState, subscribers, pendingNavigations,
                           timers, notifications, listeners, issued, extChanges>>
     ELSE /\ issued < MaxNav
          /\ issued' = issued + 1
          /\ last' = Called(input, Op("navigate", issued + 1, pathStr, "pending", NoError))
          /\ IF urlType = "history"
               THEN PushState(pathStr, Navigation(issued + 1, pathStr, r, listeners > 0))
               ELSE AssignHash(HashAfterSet(pathStr),
                               Navigation(issued + 1, pathStr, r, listeners > 0))
          /\ UNCHANGED <<config, currState, subscribers, listeners, extChanges>>

\* navigate after pathStr has been computed
NavigateTo(input, pathStr) ==
  NavigateMatched(input, pathStr, getRouteWithParams(routes, fallbackPath, pathStr))

\* navigate(path, paramsToSub)
NavigateWith(path, paramsToSub) ==
  NavigateTo(Args(path, paramsToSub), PathStr(routes, path, paramsToSub))

\* navigate(path) and navigateAny(path): without params pathStr is path
Navigate(path) ==
  NavigateMatched(Args(path, NoParams), path,
                  getRouteWithParams(routes, fallbackPath, path))

(***************************************************************************)
(* The deferred task of a history-mode navigate                            *)
(***************************************************************************)
\* the deferred task, were the state activateRoute has set not kept
TimerDone_Forgets(task, act) ==
  /\ currState' = currState
  /\ trace' = act.trace
  /\ settled' = <<Resolution(task, currState, FALSE)>>
  /\ last' = Op("timer", task.id, task.path, "ok", NoError)

TimerDone(task, act) ==
  /\ currState' = act.state
  /\ trace' = act.trace
  /\ settled' = <<Resolution(task, act.state, FALSE)>>
  /\ last' = Op("timer", task.id, task.path, "ok", NoError)

\* the deferred task, were it to match the location again when it runs
\* instead of using the route and params navigate captured
RunTask_FromLocation(task) ==
  TimerDone(task,
            activateRoute(currState, subscribers, location,
                          getRouteWithParams(routes, fallbackPath, location).route,
                          getRouteWithParams(routes, fallbackPath, location).params))

\* the deferred task, were it to activate the target of the newest
\* navigation waiting instead of its own
RunTask_Newest(task) ==
  TimerDone(task, activateRoute(currState, subscribers, timers[Len(timers)].path,
                                timers[Len(timers)].route, timers[Len(timers)].params))

RunTask(task) ==
  TimerDone(task, activateRoute(currState, subscribers, task.path, task.route, task.params))

RunTimer ==
  /\ Len(timers) > 0
  /\ RunTask(Head(timers))
  /\ timers' = Tail(timers)
  /\ UNCHANGED <<config, location, subscribers, pendingNavigations, notifications,
                 listeners, issued, extChanges>>

(***************************************************************************)
(* One popstate / hashchange event is dispatched                           *)
(***************************************************************************)
Dispatched(path, d) ==
  /\ currState' = d.state
  /\ trace' = d.trace
  /\ pendingNavigations' = d.pending
  /\ settled' = d.resolved
  /\ last' = Op("event", 0, path, "ok", NoError)

\* an event, were the listeners not to handle it
DispatchEvent_Ignored(path) ==
  Dispatched(path, NothingDone(currState, pendingNavigations))

DispatchEvent(path) ==
  Dispatched(path, Dispatch(listeners, routes, NothingDone(currState, pendingNavigations),
                            subscribers, fallbackPath, path))

LocationChangeEvent ==
  /\ notifications > 0
  /\ notifications' = notifications - 1
  /\ DispatchEvent(getPath(urlType, location))
  /\ UNCHANGED <<config, location, subscribers, timers, listeners, issued, extChanges>>

(***************************************************************************)
(* init()                                                                  *)
(***************************************************************************)
\* init(), were the listener for location changes not registered
InitHandled_NoListener(path, h) ==
  /\ currState' = h.state
  /\ trace' = h.trace
  /\ pendingNavigations' = h.pending
  /\ settled' = h.resolved
  /\ listeners' = listeners
  /\ last' = Op("init", 0, path, IF h.threw THEN "threw" ELSE "ok", h.error)

\* init(), were the listener registered also when handleUrlChange throws
InitHandled_AlwaysListens(path, h) ==
  /\ currState' = h.state
  /\ trace' = h.trace
  /\ pendingNavigations' = h.pending
  /\ settled' = h.resolved
  /\ listeners' = listeners + 1
  /\ last' = Op("init", 0, path, IF h.threw THEN "threw" ELSE "ok", h.error)

InitHandled(path, h) ==
  /\ currState' = h.state
  /\ trace' = h.trace
  /\ pendingNavigations' = h.pending
  /\ settled' = h.resolved
  /\ listeners' = IF h.threw THEN listeners ELSE listeners + 1
  /\ last' = Op("init", 0, path, IF h.threw THEN "threw" ELSE "ok", h.error)

InitAt(path) ==
  InitHandled(path, handleUrlChange(routes, currState, subscribers, pendingNavigations,
                                    fallbackPath, path))

InitRouter ==
  /\ listeners < MaxInit
  /\ InitAt(getPath(urlType, location))
  /\ UNCHANGED <<config, location, subscribers, timers, notifications, issued, extChanges>>

(***************************************************************************)
(* createRouter(routes, options) itself: buildRouteMatchers(routes), then  *)
(* init() when options.autoInit is set.  Before the call the variables     *)
(* routes, urlType, fallbackPath and autoInit hold its arguments and last  *)
(* is no operation; after a call that threw there is no router.            *)
(***************************************************************************)
AutoInitHandled(path, h) ==
  /\ currState' = h.state
  /\ trace' = h.trace
  /\ pendingNavigations' = h.pending
  /\ settled' = h.resolved
  /\ listeners' = IF h.threw THEN listeners ELSE listeners + 1
  /\ last' = Op("createRouter", 0, path, IF h.threw THEN "threw" ELSE "ok", h.error)

\* createRouter after buildRouteMatchers(routes) has done b
Constructed(b) ==
  IF b.threw
    THEN /\ last' = Op("createRouter", 0, b.path, "threw",
                       [kind |-> "Invalid path", path |-> b.path, fallback |-> Undefined])
         /\ UNCHANGED <<currState, trace, pendingNavigations, settled, listeners>>
  ELSE IF autoInit
    THEN AutoInitHandled(getPath(urlType, location),
                         handleUrlChange(routes, currState, subscribers,
                                         pendingNavigations, fallbackPath,
                                         getPath(urlType, location)))
    ELSE /\ last' = Op("createRouter", 0, Null, "ok", NoError)
         /\ UNCHANGED <<currState, trace, pendingNavigations, settled, listeners>>

CreateRouter ==
  /\ last.op = "none"
  /\ Constructed(buildRouteMatchers(routes))
  /\ UNCHANGED <<config, location, subscribers, timers, notifications, issued, extChanges>>

\* createRouter has returned a router
Exists == last.op # "none" /\ ~(last.op = "createRouter" /\ last.outcome = "threw")

(***************************************************************************)
(* The user changes the location: back / forward in history mode (a        *)
(* popstate event), an edited or clicked hash in hash mode (a hashchange   *)
(* event when the hash differs).                                           *)
(***************************************************************************)
ExternalChange(path) ==
  /\ extChanges < MaxExt
  /\ extChanges' = extChanges + 1
  /\ IF urlType = "history"
       THEN /\ location' = path
            /\ notifications' = notifications + 1
       ELSE /\ HashAfterSet(path) # location
            /\ location' = HashAfterSet(path)
            /\ notifications' = notifications + 1
  /\ trace' = <<>>
  /\ settled' = <<>>
  /\ last' = Op("external", 0, path, "ok", NoError)
  /\ UNCHANGED <<config, currState, subscribers, pendingNavigations, timers, listeners,
                 issued>>

(***************************************************************************)
(* router.computePath(path, params): the result is recorded in last.path   *)
(***************************************************************************)
\* computePath, were it to assign the computed path to the location
ComputePath_Assigns(path, params) ==
  /\ last' = Called(Args(path, params), Op("computePath", 0, computePath(path, params), "ok", NoError))
  /\ location' = IF urlType = "history" THEN computePath(path, params)
                  ELSE HashAfterSet(computePath(path, params))
  /\ trace' = <<>>
  /\ settled' = <<>>
  /\ UNCHANGED <<config, currState, subscribers, pendingNavigations, timers,
                 notifications, listeners, issued, extChanges>>

ComputePath(path, params) ==
  /\ last' = Called(Args(path, params), Op("computePath", 0, computePath(path, params), "ok", NoError))
  /\ trace' = <<>>
  /\ settled' = <<>>
  /\ UNCHANGED <<config, location, currState, subscribers, pendingNavigations, timers,
                 notifications, listeners, issued, extChanges>>

(***************************************************************************)
(* subscribe(callback) and the function it returns                         *)
(***************************************************************************)
Subscribe(s) ==
  /\ \A i \in 1..Len(subscribers) : subscribers[i] # s
  /\ subscribers' = Append(subscribers, s)
  /\ trace' = <<>>
  /\ settled' = <<>>
  /\ last' = Op("subscribe", s, Null, "ok", NoError)
  /\ UNCHANGED <<config, location, currState, pendingNavigations, timers, notifications,
                 listeners, issued, extChanges>>

Unsubscribe(s) ==
  /\ \E i \in 1..Len(subscribers) : subscribers[i] = s
  /\ subscribers' = SelectSeq(subscribers, LAMBDA x : x # s)
  /\ trace' = <<>>
  /\ settled' = <<>>
  /\ last' = Op("unsubscribe", s, Null, "ok", NoError)
  /\ UNCHANGED <<config, location, currState, pendingNavigations, timers, notifications,
                 listeners, issued, extChanges>>

\* the application drives the router through its API; the location changes
\* only by navigate
Next ==
  \/ \E path \in NavPaths : Navigate(path)
  \/ RunTimer
  \/ LocationChangeEvent
  \/ InitRouter
  \/ \E s \in Callbacks : Subscribe(s)
  \/ \E s \in Callbacks : Unsubscribe(s)

Spec == Init /\ [][Next]_vars

\* the user changes the location as well
NextUser ==
  \/ \E path \in NavPaths : Navigate(path)
  \/ RunTimer
  \/ LocationChangeEvent
  \/ InitRouter
  \/ \E path \in ExtPaths : ExternalChange(path)
  \/ \E s \in Callbacks : Subscribe(s)
  \/ \E s \in Callbacks : Unsubscribe(s)

SpecUser == Init /\ [][NextUser]_vars

(***************************************************************************)
(* Properties of activateRoute.                                            *)
(*                                                                         *)
(* In the trace of an operation every activateRoute call is followed by    *)
(* the callbacks it made, up to the next call of activateRoute or of       *)
(* onMiss; the state the call left is the one the next such call saw, or   *)
(* currState when it is the last one.                                      *)
(***************************************************************************)
IsCall(e) == e.cb \in {"activateRoute", "onMiss"}

Activations == {i \in 1..Len(trace) : trace[i].cb = "activateRoute"}

SegEnd(i) ==
  Min({j \in (i + 1)..Len(trace) : IsCall(trace[j])} \cup {Len(trace) + 1})

CallsOf(i) == SubSeq(trace, i + 1, SegEnd(i) - 1)

StateBefore(i) == trace[i].seen

StateAfter(i) == IF SegEnd(i) <= Len(trace) THEN trace[SegEnd(i)].seen ELSE currState

\* a call of a hook as the observer records it
HookCall(cb, route, params, prev, seen) ==
  [cb |-> cb, who |-> route, params |-> params, prev |-> prev, path |-> Null,
   arg |-> NoState, seen |-> seen]

\* every subscriber called once, in subscription order, with the state st,
\* which is also what getState() returns meanwhile
Notified(st) ==
  [k \in 1..Len(subscribers) |->
     [cb |-> "subscriber", who |-> subscribers[k], params |-> st.params,
      prev |-> emptyParams, path |-> st.path, arg |-> st, seen |-> st]]

RouteChange(i) == StateBefore(i).route # trace[i].who

ParamChange(i) ==
  /\ StateBefore(i).route # NoRoute
  /\ StateBefore(i).route = trace[i].who
  /\ StateBefore(i).params # trace[i].params

Repeat(i) ==
  /\ StateBefore(i).route # NoRoute
  /\ StateBefore(i).route = trace[i].who
  /\ StateBefore(i).params = trace[i].params

\* C1: an activation of a route other than the active one calls global
\* onExit(current route, outgoing params), the current route's onExit,
\* global onEnter(new route, new params), the new route's onEnter, in this
\* order and all of them while the state is still the old one; then the
\* state is {new route, new params, new path} and the subscribers are
\* notified with it.  From the unrouted state the two onExit calls are
\* left out.
C1_RouteChangeOrder ==
  \A i \in Activations :
    RouteChange(i) =>
      LET old == StateBefore(i)
          new == [path |-> trace[i].path, route |-> trace[i].who,
                  params |-> trace[i].params]
          exits == IF old.route = NoRoute THEN <<>>
                   ELSE << HookCall("options.onExit", old.route, old.params,
                                    emptyParams, old),
                           HookCall("route.onExit", old.route, old.params,
                                    emptyParams, old) >>
          enters == << HookCall("options.onEnter", new.route, new.params,
                                emptyParams, old),
                       HookCall("route.onEnter", new.route, new.params,
                                emptyParams, old) >>
      IN  /\ CallsOf(i) = exits \o enters \o Notified(new)
          /\ StateAfter(i) = new

\* C1, its case: a route is left for another one with a subscriber listening
C1_Witness ==
  \E i \in Activations :
    /\ RouteChange(i)
    /\ StateBefore(i).route # NoRoute
    /\ Len(subscribers) > 0
    /\ Len(CallsOf(i)) = 5

\* C1, its other case: the first activation, from the unrouted state
C1_WitnessUnrouted ==
  \E i \in Activations :
    /\ StateBefore(i).route = NoRoute
    /\ Len(subscribers) > 0
    /\ Len(CallsOf(i)) = 3

\* C2: an activation of the active route with other params calls no onExit
\* and no onEnter; it calls global onParamChange(route, new, prev) and then
\* the route's onParamChange(new, prev), prev being the params active
\* before; then params and path of the state are the new ones, the route is
\* the same, and every subscriber is notified once.
C2_ParamChange ==
  \A i \in Activations :
    ParamChange(i) =>
      LET old == StateBefore(i)
          new == [path |-> trace[i].path, route |-> old.route,
                  params |-> trace[i].params]
      IN  /\ CallsOf(i) =
               << HookCall("options.onParamChange", old.route, new.params,
                           old.params, old),
                  HookCall("route.onParamChange", old.route, new.params,
                           old.params, old) >>
               \o Notified(new)
          /\ \A k \in 1..Len(CallsOf(i)) :
               CallsOf(i)[k].cb \notin {"options.onExit", "route.onExit",
                                         "options.onEnter", "route.onEnter"}
          /\ StateAfter(i) = new

\* C2, its case: the params of the active route change, a subscriber listens
C2_Witness ==
  \E i \in Activations :
    /\ ParamChange(i)
    /\ Len(subscribers) > 0
    /\ trace[i].path # StateBefore(i).path
    /\ Len(CallsOf(i)) = 3

\* C3: an activation of the active route with the params it has is a
\* no-op: no callback, no notification, the state as it was.  So a second
\* navigate to the same concrete path adds no round of callbacks.
C3_RepeatIsNoOp ==
  \A i \in Activations :
    Repeat(i) =>
      /\ CallsOf(i) = <<>>
      /\ StateAfter(i) = StateBefore(i)

\* C3, its case: the deferred task of a second navigate to the path that is
\* active already, with a subscriber listening
C3_Witness ==
  /\ last.op = "timer"
  /\ last.id = 2
  /\ Len(subscribers) > 0
  /\ \E i \in Activations : Repeat(i) /\ trace[i].path = StateBefore(i).path

(***************************************************************************)
(* Concurrent navigations in hash mode.                                    *)
(***************************************************************************)
\* what the matcher yields for the path the location holds
LocationTarget == getRouteWithParams(routes, fallbackPath, getPath(urlType, location))

\* the promises of navigate are resolved oldest first: the navigations
\* still pending are in issue order and were all issued after every
\* navigation an operation resolves
ResolvedInIssueOrder ==
  /\ \A j, k \in 1..Len(pendingNavigations) :
       j < k => pendingNavigations[j].id < pendingNavigations[k].id
  /\ \A j, k \in 1..Len(settled) : j < k => settled[j].nav.id < settled[k].nav.id
  /\ \A j \in 1..Len(settled) : \A k \in 1..Len(pendingNavigations) :
       settled[j].nav.id < pendingNavigations[k].id

\* with the router initialized and every hashchange handled, navigate has
\* left the last target tn in the location
AllHandled == urlType = "hash" /\ listeners > 0 /\ notifications = 0 /\ issued > 0

\* C5 as stated: the promises are resolved in issue order and, once every
\* notification is handled, getState() has the path tn with the route and
\* params of tn.
C5_Original ==
  urlType = "hash" =>
    /\ ResolvedInIssueOrder
    /\ AllHandled =>
         /\ currState.path = getPath(urlType, location)
         /\ currState.route = LocationTarget.route
         /\ currState.params = LocationTarget.params

\* C5, amended: the promises are resolved in issue order and, once every
\* notification is handled, getState() has the route and params of tn; its
\* path is tn, or the path of an earlier activation of the same route with
\* the same params when the activation of tn was a repeat.
C5_HashFifo ==
  urlType = "hash" =>
    /\ ResolvedInIssueOrder
    /\ AllHandled =>
         /\ currState.route = LocationTarget.route
         /\ currState.params = LocationTarget.params
         /\ getRouteWithParams(routes, fallbackPath, currState.path).route
              = LocationTarget.route
         /\ getRouteWithParams(routes, fallbackPath, currState.path).params
              = LocationTarget.params

\* C5, its case: of two navigations to different targets issued back to
\* back, the first has just been resolved and the second is still queued
C5_Witness ==
  /\ urlType = "hash"
  /\ last.op = "event"
  /\ Len(settled) = 1
  /\ settled[1].nav.id = 1
  /\ notifications = 1
  /\ Len(pendingNavigations) = 1
  /\ pendingNavigations[1].id = 2
  /\ pendingNavigations[1].path # settled[1].nav.path
  /\ pendingNavigations[1].afterInit

(***************************************************************************)
(* Concurrent navigations in history mode.                                 *)
(***************************************************************************)
\* how often the hook cb was called for the route who by the last operation
Calls(cb, who) == Cardinality({k \in 1..Len(trace) : trace[k].cb = cb /\ trace[k].who = who})

\* the deferred tasks run oldest first
TasksInIssueOrder ==
  /\ \A j, k \in 1..Len(timers) : j < k => timers[j].id < timers[k].id
  /\ \A j \in 1..Len(settled) : \A k \in 1..Len(timers) :
       settled[j].nav.id < timers[k].id

\* a deferred task has just run
TaskRan == urlType = "history" /\ last.op = "timer"

\* the task that ran and the ones still waiting go to different routes
DifferentRoutes ==
  /\ \A j, k \in 1..Len(timers) : j # k => timers[j].route # timers[k].route
  /\ \A k \in 1..Len(timers) : timers[k].route # settled[1].nav.route

\* what the task that ran resolved, and the state it left: its promise,
\* with the state that has the route and params of its target
TaskResolved ==
  /\ Len(settled) = 1
  /\ settled[1].nav.id = last.id
  /\ settled[1].state = currState
  /\ currState.route = settled[1].nav.route
  /\ currState.params = settled[1].nav.params

\* C6 as stated: of concurrent navigations to pairwise different routes
\* every deferred task runs in issue order, calls the onEnter of its route
\* exactly once and resolves its promise, and the state of the last one
\* stays.  The navigations are issued after init(), so that only their
\* own tasks activate routes meanwhile.
C6_Original ==
  (TaskRan /\ DifferentRoutes /\ settled[1].nav.afterInit) =>
    /\ TasksInIssueOrder
    /\ TaskResolved
    /\ Calls("route.onEnter", settled[1].nav.route) = 1

\* C6, amended: every deferred task runs in issue order and resolves its
\* promise with a state that has the route and params of its target, so
\* the last one issued wins; it calls the onEnter of its route exactly once
\* when that route is not the active one already, and not at all when it
\* is (the first of the navigations may go to the route that is active).
C6_HistoryTasks ==
  /\ urlType = "history" => TasksInIssueOrder
  /\ TaskRan =>
       /\ TaskResolved
       /\ Calls("route.onEnter", settled[1].nav.route)
            = (IF trace[1].seen.route # settled[1].nav.route THEN 1 ELSE 0)
       /\ \A k \in 1..Len(trace) :
            trace[k].cb = "route.onEnter" => trace[k].who = settled[1].nav.route
  /\ (urlType = "history" /\ timers = <<>> /\ issued > 0) =>
       /\ currState.route = LocationTarget.route
       /\ currState.params = LocationTarget.params

\* C6, its case: of two navigations to different routes the task of the
\* first has run and entered its route while the second is waiting
C6_Witness ==
  /\ TaskRan
  /\ last.id = 1
  /\ Len(timers) = 1
  /\ timers[1].id = 2
  /\ timers[1].route # settled[1].nav.route
  /\ Calls("route.onEnter", settled[1].nav.route) = 1
  /\ trace[1].seen.route # NoRoute

(***************************************************************************)
(* The promise of navigate.                                                *)
(***************************************************************************)
\* C7 as stated: a promise of navigate(p) is resolved with a state that
\* has the route and params the matcher yielded for p, in both modes and
\* whatever else is outstanding (here: for the navigations issued after
\* init() alone).
C7_Original ==
  \A k \in 1..Len(settled) :
    settled[k].nav.afterInit =>
      /\ settled[k].state.route = settled[k].nav.route
      /\ settled[k].state.params = settled[k].nav.params

\* C8 as stated: a navigation issued after init() that passed validation
\* and matching is resolved once the deferred tasks have run and the
\* notifications have been handled; so with no task and no notification
\* left none is pending.
C8_Original ==
  (listeners > 0 /\ notifications = 0 /\ timers = <<>>) =>
    \A k \in 1..Len(pendingNavigations) : ~pendingNavigations[k].afterInit

\* C9 as stated: navigate with a path that has '//' anywhere fails with
\* 'Invalid path', with or without a fallback; onMiss is not called and the
\* location is not changed (no navigation is begun).
C9_Original ==
  (last.op = "navigate" /\ IncludesDoubleSlash(last.path)) =>
    /\ last.outcome \in {"threw", "rejected"}
    /\ last.error.kind = "Invalid path"
    /\ trace = <<>>

\* C10 as stated: with the fallback route registered, a navigation to a
\* valid path that matches no route has onMiss called exactly once for it,
\* in either mode, and is resolved with the fallback route and empty params.
C10_Original ==
  \A k \in 1..Len(settled) :
    (settled[k].nav.missed /\ settled[k].nav.afterInit) =>
      /\ settled[k].nav.onMissCalls = 1
      /\ settled[k].state.route = FindRoute(routes, fallbackPath)
      /\ settled[k].state.params = emptyParams

(***************************************************************************)
(* Matching: routers created with every list of up to MaxRoutes routes     *)
(* over a few overlapping patterns, navigated to paths that match several, *)
(* one or none of them.                                                    *)
(***************************************************************************)
MaxRoutes == 3

MatchPatterns == { <<"/", ":", "i">>, <<"/", "a">>, <<"/", "a", "/", ":", "i">> }

RouteLists ==
  UNION { [1..n -> {[path |-> p] : p \in MatchPatterns}] : n \in 1..MaxRoutes }

MatchPaths ==
  { P_a, P_z, <<"/", "a", "/", "b">>, <<"/", "a", "/", "?", "x", "=", "1">>,
    <<"/", "a", "/", "b", "/", "c">> }

InitMatch ==
  /\ routes \in RouteLists
  /\ urlType \in {"hash", "history"}
  /\ fallbackPath \in {Undefined, P_a}
  /\ Created

NextMatch == \E path \in MatchPaths : Navigate(path)

SpecMatch == InitMatch /\ [][NextMatch]_vars

\* the navigation the last navigate call queued
Queued ==
  IF urlType = "history" THEN timers[Len(timers)]
  ELSE pendingNavigations[Len(pendingNavigations)]

StripSlash(p) == IF Len(p) > 1 /\ p[Len(p)] = "/" THEN SubSeq(p, 1, Len(p) - 1) ELSE p

\* a pattern matches a clean path when both have the same segments, a
\* ':name' segment of the pattern standing for any non-empty segment
PatternMatches(pattern, cleanPath) ==
  LET ps == Split(cleanPathPart(pattern), "/")
      cs == Split(StripSlash(cleanPath), "/")
  IN  /\ Len(ps) = Len(cs)
      /\ \A k \in 1..Len(ps) :
           IF Len(ps[k]) >= 2 /\ ps[k][1] = ":" THEN cs[k] # <<>> ELSE cs[k] = ps[k]

Matching(cleanPath) ==
  {i \in 1..Len(routes) : PatternMatches(routes[i].path, cleanPath)}

\* C4: for every route list and every valid path, navigate works with the
\* first route in registration order whose pattern matches the clean path,
\* whatever the other matching patterns are, and the matcher misses (onMiss,
\* fallback or 'No route found') only when no pattern matches.
C4_FirstMatchWins ==
  (last.op = "navigate" /\ isValidPath(last.path)) =>
    LET cleanPath == SplitAt(last.path, "?", 1)
    IN  IF Matching(cleanPath) # {}
          THEN /\ last.outcome = "pending"
               /\ Queued.route = Min(Matching(cleanPath))
               /\ ~Queued.missed
               /\ trace = <<>>
          ELSE /\ Len(trace) = 1
               /\ trace[1].cb = "onMiss"
               /\ trace[1].path = cleanPath
               /\ IF last.outcome = "pending"
                    THEN Queued.missed /\ Queued.route = FindRoute(routes, fallbackPath)
                    ELSE last.outcome = "threw"
                         /\ last.error.kind = "No route found for path"

\* C4, its case: the path is the literal pattern registered second and the
\* parameter pattern registered first takes it
C4_Witness ==
  /\ last.op = "navigate"
  /\ last.outcome = "pending"
  /\ Len(routes) >= 2
  /\ routes[1].path = <<"/", ":", "i">>
  /\ routes[2].path = last.path
  /\ Cardinality(Matching(last.path)) >= 2
  /\ Queued.route = 1

(***************************************************************************)
(* Errors of navigate.                                                     *)
(***************************************************************************)
\* C11: without a fallback, navigate to a valid path that matches no route
\* fails with 'No route found for path: <clean path>', thrown out of the
\* call: nothing is queued for it, so it is not retried, and no route is
\* activated (the one call made is onMiss).
C11_NotFoundFails ==
  (/\ last.op = "navigate"
   /\ fallbackPath = Undefined
   /\ isValidPath(last.path)
   /\ Matching(SplitAt(last.path, "?", 1)) = {}) =>
    /\ last.outcome = "threw"
    /\ last.id = 0
    /\ last.error.kind = "No route found for path"
    /\ last.error.path = SplitAt(last.path, "?", 1)
    /\ last.error.fallback = Undefined
    /\ settled = <<>>
    /\ \A k \in 1..Len(trace) : trace[k].cb = "onMiss"
    /\ \A k \in 1..Len(timers) : timers[k].path # last.path
    /\ \A k \in 1..Len(pendingNavigations) : pendingNavigations[k].path # last.path

\* C11, its case: an initialized router without fallback is navigated to a
\* path that is no route
C11_Witness ==
  /\ last.op = "navigate"
  /\ last.outcome = "threw"
  /\ last.error.kind = "No route found for path"
  /\ last.path = P_z
  /\ fallbackPath = Undefined
  /\ listeners > 0
  /\ currState.route # NoRoute

(***************************************************************************)
(* Construction: createRouter called with every list of up to MaxRoutes    *)
(* routes over a few patterns, one of them with an empty segment, with     *)
(* and without autoInit, on pages at several locations.                    *)
(***************************************************************************)
DeclaredPatterns == { <<"/", "a">>, <<"/", ":", "i">>, <<"/", "a", "/", "/", "b">> }

DeclaredLists ==
  UNION { [1..n -> {[path |-> p] : p \in DeclaredPatterns}] : n \in 1..MaxRoutes }

\* the locations of the page when createRouter is called
PageLocations(type) ==
  IF type = "history" THEN {P_root, P_a, P_aab}
  ELSE {<<>>, <<"#">> \o P_a, <<"#">> \o P_z, <<"#">> \o P_aab}

CreatePaths == {P_a, P_z}

InitCreate ==
  /\ routes \in DeclaredLists
  /\ urlType \in {"hash", "history"}
  /\ fallbackPath \in {Undefined, P_a}
  /\ autoInit \in BOOLEAN
  /\ location \in PageLocations(urlType)
  /\ currState = RouteState(Null, NoRoute, emptyParams)
  /\ subscribers = <<>>
  /\ pendingNavigations = <<>>
  /\ timers = <<>>
  /\ notifications = 0
  /\ listeners = 0
  /\ issued = 0
  /\ extChanges = 0
  /\ settled = <<>>
  /\ trace = <<>>
  /\ last = Op("none", 0, Null, "ok", NoError)

NextCreate ==
  \/ CreateRouter
  \/ Exists /\ InitRouter
  \/ Exists /\ \E path \in CreatePaths : Navigate(path)
  \/ Exists /\ RunTimer
  \/ Exists /\ LocationChangeEvent

SpecCreate == InitCreate /\ [][NextCreate]_vars

\* C12: createRouter throws 'Invalid path' at once when a declared route
\* path has an empty segment, with and without autoInit: no route is
\* activated, no callback is called (onMiss included), no listener for
\* location changes is registered.
C12_InvalidRouteFails ==
  (/\ last.op = "createRouter"
   /\ \E i \in 1..Len(routes) : IncludesDoubleSlash(routes[i].path)) =>
    /\ last.outcome = "threw"
    /\ last.error.kind = "Invalid path"
    /\ IncludesDoubleSlash(last.error.path)
    /\ currState = RouteState(Null, NoRoute, emptyParams)
    /\ trace = <<>>
    /\ settled = <<>>
    /\ listeners = 0
    /\ notifications = 0

\* C12, its case: autoInit is set, the page is at a path the first route
\* matches, and the route declared last is the invalid one
C12_Witness ==
  /\ last.op = "createRouter"
  /\ last.outcome = "threw"
  /\ last.error.kind = "Invalid path"
  /\ autoInit
  /\ Len(routes) = 3
  /\ routes[1].path = P_a
  /\ routes[3].path = <<"/", "a", "/", "/", "b">>
  /\ getPath(urlType, location) = P_a

(***************************************************************************)
(* Extraction: a router with the route '/p/:i?i&q&t', whose path parameter *)
(* i is declared as a query parameter too, initialized on pages whose URL  *)
(* is '/p/<id>' with every query string of up to MaxQuery pieces.          *)
(***************************************************************************)
MaxQuery == 2

ExtractRoutes ==
  << [path |-> <<"/", "p", "/", ":", "i", "?", "i", "&", "q", "&", "t">>],
     [path |-> <<"/">>] >>

\* the pieces of a query string: name, whether '=' follows, value
QueryPieces ==
  { [name |-> <<"i">>, eq |-> TRUE, value |-> <<"9">>],
    [name |-> <<"q">>, eq |-> TRUE, value |-> <<"5">>],
    [name |-> <<"q">>, eq |-> FALSE, value |-> <<>>],
    [name |-> <<"t">>, eq |-> TRUE, value |-> <<>>],
    [name |-> <<"z">>, eq |-> TRUE, value |-> <<"3">>] }

Queries == UNION { [1..n -> QueryPieces] : n \in 0..MaxQuery }

Ids == { <<"1">>, <<"x">> }

RenderPiece(pc) == pc.name \o (IF pc.eq THEN <<"=">> \o pc.value ELSE <<>>)

RECURSIVE RenderQuery(_)
RenderQuery(q) ==
  IF q = <<>> THEN <<>>
  ELSE IF Len(q) = 1 THEN RenderPiece(q[1])
  ELSE RenderPiece(q[1]) \o <<"&">> \o RenderQuery(Tail(q))

\* the URL '/p/<id>?<query>', without '?' when there is no piece
RenderUrl(id, q) ==
  <<"/", "p", "/">> \o id \o (IF q = <<>> THEN <<>> ELSE <<"?">> \o RenderQuery(q))

ExtractUrls == { RenderUrl(id, q) : id \in Ids, q \in Queries }

InitExtract ==
  /\ routes = ExtractRoutes
  /\ urlType \in {"hash", "history"}
  /\ fallbackPath = Undefined
  /\ autoInit = FALSE
  /\ location \in { IF urlType = "history" THEN u ELSE <<"#">> \o u : u \in ExtractUrls }
  /\ currState = RouteState(Null, NoRoute, emptyParams)
  /\ subscribers = <<>>
  /\ pendingNavigations = <<>>
  /\ timers = <<>>
  /\ notifications = 0
  /\ listeners = 0
  /\ issued = 0
  /\ extChanges = 0
  /\ settled = <<>>
  /\ trace = <<>>
  /\ last = Op("createRouter", 0, Null, "ok", NoError)

NextExtract ==
  \/ InitRouter
  \/ \E s \in Callbacks : Subscribe(s)
  \/ \E s \in Callbacks : Unsubscribe(s)

SpecExtract == InitExtract /\ [][NextExtract]_vars

\* the router has activated the URL made of id and the pieces q
Extracted(id, q) == last.op = "init" /\ last.path = RenderUrl(id, q)

Present(q, name) == \E k \in 1..Len(q) : q[k].name = name

\* the value of the first piece of q named name
FirstValue(q, name) == q[Min({k \in 1..Len(q) : q[k].name = name})].value

\* C13: the route declares its path parameter i as a query parameter too;
\* params.i is always the value from the path, whatever the query string
\* gives for i, and the other declared names present in the query string
\* are extracted from it.
C13_PathParamWins ==
  \A id \in Ids, q \in Queries :
    Extracted(id, q) =>
      /\ currState.route = 1
      /\ <<"i">> \in DOMAIN currState.params
      /\ currState.params[<<"i">>] = id
      /\ \A name \in {<<"q">>, <<"t">>} :
           Present(q, name) =>
             /\ name \in DOMAIN currState.params
             /\ currState.params[name] = FirstValue(q, name)

\* C13, its case: the query string gives i and q, the path gives i
C13_Witness ==
  /\ Extracted(<<"x">>, << [name |-> <<"i">>, eq |-> TRUE, value |-> <<"9">>],
                           [name |-> <<"q">>, eq |-> TRUE, value |-> <<"5">>] >>)
  /\ currState.params[<<"i">>] = <<"x">>
  /\ currState.params[<<"q">>] = <<"5">>

\* C14: params has, beside the path parameter, exactly the declared query
\* names present in the query string: no key for a declared name that is
\* absent, the empty string for one present without '=value', and never a
\* name the route does not declare.
C14_DeclaredAndPresent ==
  \A id \in Ids, q \in Queries :
    Extracted(id, q) =>
      /\ DOMAIN currState.params
           = {<<"i">>} \cup {name \in {<<"q">>, <<"t">>} : Present(q, name)}
      /\ \A name \in {<<"q">>, <<"t">>} :
           (Present(q, name) /\ ~q[Min({k \in 1..Len(q) : q[k].name = name})].eq) =>
             currState.params[name] = <<>>

\* C14, its case: q is present without a value, t is absent and z is not
\* declared
C14_Witness ==
  /\ Extracted(<<"1">>, << [name |-> <<"q">>, eq |-> FALSE, value |-> <<>>],
                           [name |-> <<"z">>, eq |-> TRUE, value |-> <<"3">>] >>)
  /\ DOMAIN currState.params = {<<"i">>, <<"q">>}
  /\ currState.params[<<"q">>] = <<>>

(***************************************************************************)
(* Round trip: navigate(pattern, params) on a router whose routes have one *)
(* or two path parameters, with values made of the characters that mean    *)
(* something in a URL or in a regular expression.                          *)
(***************************************************************************)
T_r == <<"/", "r", "/", ":", "i">>
T_t == <<"/", "t", "/", ":", "i", "/", ":", "k">>
T_d == <<"/", "d", "/", ":", "a", "-", "b">>

RoundTripRoutes == << [path |-> <<"/">>], [path |-> T_r], [path |-> T_t], [path |-> T_d] >>

Values ==
  { <<" ">>, <<"+">>, <<"&">>, <<"#">>, <<"@">>, <<".">>, <<"*">>, <<"[">>, <<"]">>,
    <<"(">>, <<")">>, <<"|">>, <<"/">>, <<"%">>, <<"?">>, <<":">>, <<"=">>, <<"x">>,
    <<".", "*">>, <<"a", "|", "b">>, <<>> }

RoundTripInputs ==
  { Args(T_r, Some([key \in {<<"i">>} |-> v])) : v \in Values }
    \cup { Args(T_t, Some([key \in {<<"i">>, <<"k">>} |-> IF key = <<"i">> THEN v ELSE <<"2">>])) :
             v \in {<<"/">>, <<"x">>} }
    \cup { Args(T_d, Some([key \in {<<"a", "-", "b">>} |-> <<"x">>])) }

InitRoundTrip ==
  /\ routes = RoundTripRoutes
  /\ urlType \in {"hash", "history"}
  /\ fallbackPath = Undefined
  /\ Created

NextRoundTrip == \E input \in RoundTripInputs : NavigateWith(input.path, input.params)

SpecRoundTrip == InitRoundTrip /\ [][NextRoundTrip]_vars

\* two params objects with the same keys and the same values
SameParams(p1, p2) == DOMAIN p1 = DOMAIN p2 /\ \A key \in DOMAIN p1 : p1[key] = p2[key]

\* navigate(pattern, params) has just been called
Substituted == last.op = "navigate" /\ last.input.params # NoParams

\* the matcher's result for the computed path is the route of the pattern
\* with the params given
RoundTrips ==
  /\ last.outcome = "pending"
  /\ routes[Queued.route].path = last.input.path
  /\ SameParams(Queued.params, The(last.input.params))

\* every parameter is given a value that is not the empty string
ValuesGiven == \A key \in DOMAIN The(last.input.params) : The(last.input.params)[key] # <<>>

\* C15 as stated: for every registered pattern with path parameters only
\* and every params giving each parameter a (non-empty) value, the path
\* computed from them resolves to that pattern with params equal to the
\* ones given.
C15_Original == (Substituted /\ ValuesGiven) => RoundTrips

\* the round trip for the patterns whose parameter names are made of word
\* characters
RoundTripOfWordNames == (Substituted /\ ValuesGiven /\ last.input.path # T_d) => RoundTrips

\* an empty value does not make the round trip: the computed path '/r/' has
\* no route
EmptyValueMisses ==
  (Substituted /\ last.input.path = T_r /\ ~ValuesGiven)
    => (last.outcome = "threw" /\ last.path = <<"/", "r", "/">>)

\* a value of special characters has made the round trip
RoundTripOfSpecialValue ==
  /\ Substituted
  /\ last.input.path = T_r
  /\ The(last.input.params)[<<"i">>] = <<"a", "|", "b">>
  /\ last.path = <<"/", "r", "/", "a", "%", "7", "C", "b">>
  /\ RoundTrips

(***************************************************************************)
(* Segments: routers of one route, declared with or without a trailing     *)
(* slash, with a literal that holds a '.', or with a parameter, navigated  *)
(* to paths with and without a trailing slash.                             *)
(***************************************************************************)
T_a == <<"/", "a">>
T_aSlash == <<"/", "a", "/">>
T_adotb == <<"/", "a", ".", "b">>
T_u == <<"/", "u", "/", ":", "i">>

SegmentPatterns == {T_a, T_aSlash, T_adotb, T_u}

SegmentPaths ==
  { <<"/", "a">>, <<"/", "a", "/">>, <<"/", "a", ".", "b">>, <<"/", "a", "x", "b">>,
    <<"/", "a", ".", "b", "/">>, <<"/", "u", "/", "1">>, <<"/", "u", "/", "1", "/">>,
    <<"/", "u">>, <<"/", "u", "/", "1", "/", "2">> }

InitSegments ==
  /\ routes \in { <<[path |-> p]>> : p \in SegmentPatterns }
  /\ urlType \in {"hash", "history"}
  /\ fallbackPath = Undefined
  /\ Created

NextSegments == \E path \in SegmentPaths : Navigate(path)

SpecSegments == InitSegments /\ [][NextSegments]_vars

\* the last navigate call was given a path that a route matches
Resolved == last.op = "navigate" /\ last.outcome = "pending" /\ ~Queued.missed

\* c with one trailing slash appended, or with its trailing slash removed
OtherSlash(c) == IF c[Len(c)] = "/" THEN SubSeq(c, 1, Len(c) - 1) ELSE c \o <<"/">>

\* the path resolves to the route and the params the last navigate call got
ResolvesAlike(path, r) ==
  /\ r.status = "ok"
  /\ ~r.missed
  /\ r.route = Queued.route
  /\ SameParams(r.params, Queued.params)

\* C16 as stated: a path that matches a registered pattern, and the same
\* path with one trailing slash appended (or its trailing slash removed),
\* resolve to the same route with the same params.
C16_Original ==
  Resolved => ResolvesAlike(OtherSlash(last.path),
                            getRouteWithParams(routes, fallbackPath, OtherSlash(last.path)))

\* the equivalence for the patterns declared without a trailing slash
SlashEquivalence ==
  (Resolved /\ routes[1].path # T_aSlash) =>
    ResolvesAlike(OtherSlash(last.path),
                  getRouteWithParams(routes, fallbackPath, OtherSlash(last.path)))

\* '/u/1/' has resolved to '/u/:i' with i = '1', as '/u/1' does
SlashEquivalenceOfParam ==
  /\ Resolved
  /\ routes[1].path = T_u
  /\ last.path = <<"/", "u", "/", "1", "/">>
  /\ Queued.params[<<"i">>] = <<"1">>
  /\ getRouteWithParams(routes, fallbackPath, <<"/", "u", "/", "1">>).params[<<"i">>] = <<"1">>

RECURSIVE StripSlashes(_)
\* p without its leading and trailing slashes
StripSlashes(p) ==
  IF p # <<>> /\ p[1] = "/" THEN StripSlashes(Tail(p))
  ELSE IF p # <<>> /\ p[Len(p)] = "/" THEN StripSlashes(SubSeq(p, 1, Len(p) - 1))
  ELSE p

\* the matching the statement describes: same number of segments, a literal
\* segment equal to the path's, a segment that starts with ':' standing for
\* any non-empty segment
Accepts(pattern, path) ==
  LET ps == Split(StripSlashes(pattern), "/")
      cs == Split(StripSlashes(path), "/")
  IN  /\ Len(ps) = Len(cs)
      /\ \A k \in 1..Len(ps) :
           IF ps[k] # <<>> /\ ps[k][1] = ":" THEN cs[k] # <<>> ELSE cs[k] = ps[k]

\* C17 as stated: the matcher compiled for a pattern accepts a path exactly
\* when the path has the segments of the pattern, literal segments being
\* equal byte for byte and parameter segments being any non-empty token.
\* (Stated for the patterns declared without a trailing slash.)
C17_Original ==
  (last.op = "navigate" /\ routes[1].path # T_aSlash) =>
    (Resolved <=> Accepts(routes[1].path, last.path))

\* the same for the patterns whose literals hold letters only
AcceptsOfPlainLiterals ==
  (last.op = "navigate" /\ routes[1].path \in {T_a, T_u}) =>
    (Resolved <=> Accepts(routes[1].path, last.path))

(***************************************************************************)
(* Subscribers.                                                            *)
(***************************************************************************)
Subscribed == {subscribers[n] : n \in 1..Len(subscribers)}

\* the positions, among the callbacks of the activation i, of the calls of
\* the subscriber s
SubscriberCalls(i, s) ==
  {k \in 1..Len(CallsOf(i)) : CallsOf(i)[k].cb = "subscriber" /\ CallsOf(i)[k].who = s}

\* the one call of s is after every hook of the activation i and is handed
\* the state the activation left, which getState() returns meanwhile
CalledOnceAtEnd(i, s) ==
  /\ Cardinality(SubscriberCalls(i, s)) = 1
  /\ \A k \in SubscriberCalls(i, s) :
       /\ \A j \in 1..Len(CallsOf(i)) : CallsOf(i)[j].cb # "subscriber" => j < k
       /\ CallsOf(i)[k].arg = StateAfter(i)
       /\ CallsOf(i)[k].seen = StateAfter(i)

\* what holds of the callbacks of every operation
NotifiedOnChange ==
  /\ \A i \in Activations :
       IF RouteChange(i) \/ ParamChange(i)
         THEN /\ StateAfter(i) # StateBefore(i)
              /\ \A s \in Subscribed : CalledOnceAtEnd(i, s)
         ELSE /\ StateAfter(i) = StateBefore(i)
              /\ \A s \in Callbacks : SubscriberCalls(i, s) = {}
  /\ \A k \in 1..Len(trace) :
       trace[k].cb = "subscriber" =>
         /\ trace[k].who \in Subscribed
         /\ \E i \in Activations : i < k /\ k < SegEnd(i)
  /\ last.op = "unsubscribe" => last.id \notin Subscribed
  /\ last.op = "subscribe" => last.id \in Subscribed

\* a callback is among the subscribers only from a subscribe call on
SubscribedBySubscribe ==
  \A s \in Callbacks :
    (s \notin Subscribed /\ s \in Subscribed') => (last'.op = "subscribe" /\ last'.id = s)

\* C18: every activation that changes the state (another route, or other
\* params of the same route) calls each subscriber exactly once, after the
\* hooks of that activation and after the state update, with the new state,
\* which is what getState() returns at that moment; an activation that
\* changes nothing calls no subscriber; a callback whose unsubscribe
\* function has been called is not called again (unless it is subscribed
\* again).
C18_SubscriberCalls == []NotifiedOnChange /\ [][SubscribedBySubscribe]_vars

\* C18, its case: the params of the active route have changed, the hooks
\* were called and then the subscriber, with the state getState() returns
C18_Witness ==
  \E i \in Activations :
    /\ ParamChange(i)
    /\ Subscribed = {1}
    /\ SubscriberCalls(i, 1) = {Len(CallsOf(i))}
    /\ Len(CallsOf(i)) = 3
    /\ CallsOf(i)[3].arg = currState
(***************************************************************************)
(* Manual initialization: routers created with autoInit false on pages at  *)
(* several locations; the application calls init, navigate and subscribe   *)
(* in any order and the user changes the location.                         *)
(***************************************************************************)
ManualLocations(type) ==
  IF type = "history" THEN {P_root, P_a, P_u1q5, P_z}
  ELSE {<<>>, <<"#">> \o P_a, <<"#">> \o P_u1q5, <<"#">> \o P_z}

ManualPaths == {P_a, P_z}

InitManual ==
  /\ routes = Routes
  /\ urlType \in {"hash", "history"}
  /\ fallbackPath \in {Undefined, P_n}
  /\ autoInit = FALSE
  /\ location \in ManualLocations(urlType)
  /\ currState = RouteState(Null, NoRoute, emptyParams)
  /\ subscribers = <<>>
  /\ pendingNavigations = <<>>
  /\ timers = <<>>
  /\ notifications = 0
  /\ listeners = 0
  /\ issued = 0
  /\ extChanges = 0
  /\ settled = <<>>
  /\ trace = <<>>
  /\ last = Op("createRouter", 0, Null, "ok", NoError)

NextManual ==
  \/ InitRouter
  \/ \E path \in ManualPaths : Navigate(path)
  \/ RunTimer
  \/ LocationChangeEvent
  \/ \E path \in ExtPaths : ExternalChange(path)
  \/ \E s \in Callbacks : Subscribe(s)
  \/ \E s \in Callbacks : Unsubscribe(s)

SpecManual == InitManual /\ [][NextManual]_vars

\* no call of init or of navigate has returned normally, and the last
\* operation is neither (a call that threw changes last and trace only)
Untouched == listeners = 0 /\ issued = 0 /\ last.op \notin {"init", "navigate"}

\* init() has returned and it was the first activation
FirstInit ==
  /\ last.op = "init"
  /\ last.outcome = "ok"
  /\ trace[1].cb = "activateRoute"
  /\ trace[1].seen = NoState

\* what init() has done, r being what the matcher returns for the location
InitDone(path, r) ==
  /\ ~r.missed
  /\ last.path = path
  /\ trace = << Event("activateRoute", r.route, r.params, emptyParams, path, NoState, NoState),
                HookCall("options.onEnter", r.route, r.params, emptyParams, NoState),
                HookCall("route.onEnter", r.route, r.params, emptyParams, NoState) >>
               \o Notified(RouteState(path, r.route, r.params))
  /\ currState = RouteState(path, r.route, r.params)
  /\ listeners = 1

\* C19: with autoInit false, until init() or navigate is called the state
\* is {path: null, route: null, params: {}} and no hook and no subscriber
\* is called, whatever the location does; the first init() that finds a
\* route for the current location calls global onEnter and then the
\* route's onEnter with the route and the params of the location, sets the
\* state to them, notifies the subscribers with it, and registers the
\* listener for location changes.
C19_ManualInit ==
  /\ Untouched => (currState = NoState /\ trace = <<>> /\ settled = <<>>)
  /\ FirstInit => InitDone(getPath(urlType, location),
                           getRouteWithParams(routes, fallbackPath, getPath(urlType, location)))

\* C19, its case: the user had changed the location before init() was
\* called with a subscriber listening; init() has activated '/u/:i?q' at
\* the location the page is at now
C19_Witness ==
  /\ FirstInit
  /\ extChanges > 0
  /\ issued = 0
  /\ last.path = P_u2
  /\ Len(subscribers) = 1
  /\ Len(trace) = 4
  /\ trace[4].cb = "subscriber"
  /\ currState.route = FindRoute(routes, <<"/", "u", "/", ":", "i", "?", "q">>)
  /\ listeners = 1

\* C19, its other case: the location has changed and the event was raised
\* while no init() and no navigate had been called
C19_WitnessUntouched ==
  /\ Untouched
  /\ last.op = "event"
  /\ extChanges > 0
  /\ Len(subscribers) = 1

(***************************************************************************)
(* Call shapes: a router with a route that declares query parameters;      *)
(* navigate is called with the full pattern, with the path part of the     *)
(* pattern, and with the concrete path, for every mapping of the           *)
(* parameters.                                                             *)
(***************************************************************************)
T_p == <<"/", "p", "/", ":", "i", "?", "q", "&", "t">>

ShapeRoutes == << [path |-> <<"/">>], [path |-> T_p] >>

\* params restricted to the names in keys
Restrict(params, keys) == [key \in DOMAIN params \cap keys |-> params[key]]

Names(keys) == {keys[n] : n \in 1..Len(keys)}

\* the mappings: i is given, q and t are given or left out
ShapeMappings ==
  { Restrict([key \in {<<"i">>, <<"q">>, <<"t">>} |->
                IF key = <<"i">> THEN i ELSE IF key = <<"q">> THEN q ELSE t],
             {<<"i">>} \cup (IF q = Undefined THEN {} ELSE {<<"q">>})
                       \cup (IF t = Undefined THEN {} ELSE {<<"t">>})) :
      i \in {<<"+">>}, q \in {Undefined, <<"+">>, <<>>}, t \in {Undefined, <<"1">>} }

\* the arguments of the three call shapes for the pattern and the mapping
FullShape(pattern, params) == Args(pattern, Some(params))

PathOnlyShape(pattern, params) == Args(cleanPathPart(pattern), Some(params))

ConcreteShape(pattern, params) ==
  Args(Substitute(cleanPathPart(pattern), params),
       Some(Restrict(params, Names(getQueryParamKeys(pattern)))))

ShapeInputs ==
  UNION { {FullShape(T_p, m), PathOnlyShape(T_p, m), ConcreteShape(T_p, m)} :
            m \in ShapeMappings }

InitShapes ==
  /\ routes = ShapeRoutes
  /\ urlType \in {"hash", "history"}
  /\ fallbackPath = Undefined
  /\ Created

NextShapes == \E input \in ShapeInputs : NavigateWith(input.path, input.params)

SpecShapes == InitShapes /\ [][NextShapes]_vars

\* navigate has just been called with a full pattern and params
FullShapeCalled ==
  last.op = "navigate" /\ last.input.params # NoParams /\ Includes(last.input.path, "?")

\* the path navigate goes to when it is called with input
TargetOf(input) == PathStr(routes, input.path, input.params)

\* the call resolved to the route of the pattern, with the path parameters
\* and the query parameters given, and no other
ResolvedWith(pattern, params) ==
  /\ last.outcome = "pending"
  /\ ~Queued.missed
  /\ routes[Queued.route].path = pattern
  /\ SameParams(Queued.params, params)

\* C20: for a route declared with query parameters, navigate(full pattern,
\* params), navigate(path part of the pattern, params) and
\* navigate(concrete path, query params) go to the same concrete path, and
\* so resolve to the same route with the same params: the ones given, a
\* query parameter left out being absent.
C20_CallShapes ==
  FullShapeCalled =>
    /\ TargetOf(PathOnlyShape(last.input.path, The(last.input.params))) = last.path
    /\ TargetOf(ConcreteShape(last.input.path, The(last.input.params))) = last.path
    /\ ResolvedWith(last.input.path, The(last.input.params))

\* C20, its case: i is '+', q is left out and t is given; the three shapes
\* go to '/p/%2B?t=1'
C20_Witness ==
  /\ FullShapeCalled
  /\ last.path = <<"/", "p", "/", "%", "2", "B", "?", "t", "=", "1">>
  /\ DOMAIN Queued.params = {<<"i">>, <<"t">>}
  /\ Queued.params[<<"i">>] = <<"+">>
  /\ TargetOf(PathOnlyShape(T_p, The(last.input.params))) = last.path
  /\ TargetOf(ConcreteShape(T_p, The(last.input.params))) = last.path

\* the calls with the path part of the pattern and with the concrete path
\* resolve to the route of the pattern as well
OtherShapesResolve ==
  (last.op = "navigate" /\ last.input.params # NoParams /\ ~Includes(last.input.path, "?")) =>
    /\ last.outcome = "pending"
    /\ routes[Queued.route].path = T_p
    /\ \A key \in DOMAIN The(last.input.params) :
         key \in DOMAIN Queued.params /\ Queued.params[key] = The(last.input.params)[key]

(***************************************************************************)
(* computePath: a router whose application computes paths for patterns     *)
(* with and without a path parameter and with declared query names in      *)
(* both orders, for every mapping of the parameters, between navigations.   *)
(***************************************************************************)
\* a pattern in pieces: base, then ':i' when param, then '?' and the names
ComputePieces ==
  { [base |-> <<"/", "p", "/">>, param |-> TRUE, names |-> << <<"q">>, <<"t">> >>],
    [base |-> <<"/", "p", "/">>, param |-> TRUE, names |-> << <<"t">>, <<"q">> >>],
    [base |-> <<"/", "p", "/">>, param |-> TRUE, names |-> << >>],
    [base |-> <<"/", "s">>, param |-> FALSE, names |-> << <<"q">> >>] }

RenderPattern(pc) ==
  pc.base \o (IF pc.param THEN <<":", "i">> ELSE <<>>)
          \o (IF pc.names = <<>> THEN <<>> ELSE <<"?">> \o Join(pc.names, "&"))

\* the params objects: i is ' ', q is left out, undefined, '5' or '', t is
\* left out or '&'
ComputeMappings ==
  { Restrict([key \in {<<"i">>, <<"q">>, <<"t">>} |->
                IF key = <<"i">> THEN <<" ">> ELSE IF key = <<"q">> THEN q.value ELSE t.value],
             {<<"i">>} \cup (IF q.has THEN {<<"q">>} ELSE {}) \cup (IF t.has THEN {<<"t">>} ELSE {})) :
      q \in { [has |-> FALSE, value |-> Undefined], [has |-> TRUE, value |-> Undefined],
              [has |-> TRUE, value |-> <<"5">>], [has |-> TRUE, value |-> <<>>] },
      t \in { [has |-> FALSE, value |-> Undefined], [has |-> TRUE, value |-> <<"&">>] } }

ComputeInputs ==
  { Args(RenderPattern(pc), Some(m)) : pc \in ComputePieces, m \in ComputeMappings }
    \cup { Args(RenderPattern(pc), NoParams) : pc \in ComputePieces }

InitCompute ==
  /\ routes = Routes
  /\ urlType \in {"hash", "history"}
  /\ fallbackPath = Undefined
  /\ Created

NextCompute ==
  \/ \E input \in ComputeInputs : ComputePath(input.path, input.params)
  \/ Navigate(P_a)
  \/ RunTimer
  \/ LocationChangeEvent
  \/ InitRouter
  \/ \E s \in Callbacks : Subscribe(s)

SpecCompute == InitCompute /\ [][NextCompute]_vars

\* the declared names that have a value in params, in declaration order
Defined(names, params) ==
  SelectSeq(names, LAMBDA n : n \in DOMAIN params /\ params[n] # Undefined)

\* 'name=value' for each of them, the value encoded
Pairs(present, params) ==
  [k \in 1..Len(present) |-> present[k] \o <<"=">> \o enc(params[present[k]])]

\* the path the statement describes for the pattern in pieces pc
ExpectedPath(pc, params) ==
  pc.base \o (IF pc.param THEN enc(params[<<"i">>]) ELSE <<>>)
          \o (IF Defined(pc.names, params) = <<>> THEN <<>>
              ELSE <<"?">> \o Join(Pairs(Defined(pc.names, params), params), "&"))

\* C21: computePath(pattern, params) is the path part of the pattern with
\* every ':name' replaced by the encoded value, followed by '?' and
\* 'name=value' (encoded) for exactly the declared query names whose value
\* in params is not undefined, in declaration order and joined by '&'; a
\* name without a value is left out, not emitted as 'name=', and there is
\* no '?' when no declared name has a value.
C21_ComputedPath ==
  \A pc \in ComputePieces :
    (/\ last.op = "computePath"
     /\ last.input.params # NoParams
     /\ last.input.path = RenderPattern(pc)) =>
      last.path = ExpectedPath(pc, The(last.input.params))

\* C21, its case: the pattern declares t and q; q is undefined and t is
\* '&': the path is '/p/%20?t=%26'
C21_Witness ==
  /\ last.op = "computePath"
  /\ last.input.path = <<"/", "p", "/", ":", "i", "?", "t", "&", "q">>
  /\ last.input.params # NoParams
  /\ DOMAIN The(last.input.params) = {<<"i">>, <<"q">>, <<"t">>}
  /\ The(last.input.params)[<<"q">>] = Undefined
  /\ last.path = <<"/", "p", "/", "%", "2", "0", "?", "t", "=", "%", "2", "6">>

\* a call of computePath changes nothing and calls nothing
ComputePathIsPure ==
  last'.op = "computePath" =>
    /\ UNCHANGED <<currState, location, pendingNavigations, subscribers, timers,
                   notifications, listeners, issued>>
    /\ trace' = <<>>
    /\ settled' = <<>>

\* C22: computePath, called in any state, leaves the state of the router,
\* the location, the pending navigations (and the scheduled tasks) and the
\* subscribers as they are, and calls no hook, no onMiss and no subscriber.
C22_ComputePathIsPure == [][ComputePathIsPure]_vars

\* C22, its case: computePath has been called while a route is active, a
\* navigation is pending and a subscriber listens
C22_Witness ==
  /\ last.op = "computePath"
  /\ last.input.params # NoParams
  /\ currState.route # NoRoute
  /\ Len(pendingNavigations) + Len(timers) > 0
  /\ Len(subscribers) = 1

(***************************************************************************)
(* Fragments: hash-mode routers on pages whose URL has no fragment, an     *)
(* empty one ('#'), '#/' or '#/a'.  location.hash is '' for a URL without  *)
(* fragment and for one with an empty fragment, '#' + fragment otherwise.  *)
(***************************************************************************)
PageFragments == {Null, <<>>, P_root, P_a}

\* location.hash of a page whose URL has the fragment given (Null: none)
LocationHash(fragment) ==
  IF fragment = Null \/ fragment = <<>> THEN <<>> ELSE <<"#">> \o fragment

EmptyFragment == location \in {LocationHash(Null), LocationHash(<<>>)}

InitFragments ==
  /\ routes = Routes
  /\ urlType = "hash"
  /\ fallbackPath \in {Undefined, P_n}
  /\ autoInit = FALSE
  /\ location \in {LocationHash(fragment) : fragment \in PageFragments}
  /\ currState = RouteState(Null, NoRoute, emptyParams)
  /\ subscribers = <<>>
  /\ pendingNavigations = <<>>
  /\ timers = <<>>
  /\ notifications = 0
  /\ listeners = 0
  /\ issued = 0
  /\ extChanges = 0
  /\ settled = <<>>
  /\ trace = <<>>
  /\ last = Op("createRouter", 0, Null, "ok", NoError)

NextFragments ==
  \/ InitRouter
  \/ \E path \in {P_a, P_rootk} : Navigate(path)
  \/ LocationChangeEvent
  \/ \E path \in {<<>>, P_a} : ExternalChange(path)
  \/ \E s \in Callbacks : Subscribe(s)

SpecFragments == InitFragments /\ [][NextFragments]_vars

\* C23: in hash mode init() on a page with an empty fragment (no '#', or
\* a bare '#') resolves the path '/', the one it resolves for '#/'; called
\* on the fresh router it activates the route '/' and the state is
\* {path: '/', route: '/', params: {}}.
C23_EmptyFragmentIsRoot ==
  (urlType = "hash" /\ last.op = "init" /\ EmptyFragment) =>
    /\ last.outcome = "ok"
    /\ last.path = <<"/">>
    /\ last.path = getPath("hash", LocationHash(<<"/">>))
    /\ currState.route = FindRoute(routes, <<"/">>)
    /\ FirstInit => currState = RouteState(<<"/">>, FindRoute(routes, <<"/">>), emptyParams)

\* C23, its case: init() on the fresh router, the page having no fragment,
\* has entered '/' and told the subscriber
C23_Witness ==
  /\ urlType = "hash"
  /\ FirstInit
  /\ location = <<>>
  /\ currState.path = <<"/">>
  /\ Len(trace) = 4
  /\ trace[3].cb = "route.onEnter"
  /\ trace[4].arg.path = <<"/">>

(***************************************************************************)
(* The queue of pending navigations (hash mode).                           *)
(***************************************************************************)
PendingIds(queue) == {queue[k].id : k \in 1..Len(queue)}

\* the navigations whose promise the step resolves
ResolvedNow == {settled'[k].nav.id : k \in 1..Len(settled')}

\* the entries of the queue are navigations issued, each once
QueueOfIssued ==
  urlType = "hash" =>
    /\ PendingIds(pendingNavigations) \subseteq 1..issued
    /\ Cardinality(PendingIds(pendingNavigations)) = Len(pendingNavigations)

\* a step adds the navigation it issues to the queue and takes out of it
\* the navigations it resolves, each of which was in it, and no other
QueueStep ==
  urlType = "hash" =>
    /\ Len(settled') = Cardinality(ResolvedNow)
    /\ ResolvedNow \subseteq PendingIds(pendingNavigations)
    /\ PendingIds(pendingNavigations') =
         (PendingIds(pendingNavigations) \ ResolvedNow) \cup ((issued + 1)..issued')
    /\ Len(pendingNavigations') =
         Len(pendingNavigations) + (issued' - issued) - Len(settled')

\* C24: in hash mode the pending-navigation queue holds exactly the
\* navigations issued whose promise has not been resolved yet: it is empty
\* at first, every step adds the navigation it issues and removes the ones
\* it resolves, so that its length is the number issued minus the number
\* resolved.
C24_QueueLength ==
  /\ (urlType = "hash" => (issued = 0 /\ pendingNavigations = <<>>))
  /\ []QueueOfIssued
  /\ [][QueueStep]_vars

\* C24, its case: two navigations were issued, one has been resolved and
\* the other is in the queue
C24_Witness ==
  /\ urlType = "hash"
  /\ issued = 2
  /\ Len(settled) = 1
  /\ settled[1].nav.id = 1
  /\ PendingIds(pendingNavigations) = {2}

\* a step that is not the handling of a location-change event neither
\* removes nor resolves an entry; the handling of one removes and resolves
\* the oldest entry, if there is one
ConsumedByEvent ==
  urlType = "hash" =>
    /\ last'.op # "event" =>
         /\ settled' = <<>>
         /\ PendingIds(pendingNavigations) \subseteq PendingIds(pendingNavigations')
    /\ (last'.op = "event" /\ settled' # <<>>) =>
         /\ Len(settled') = 1
         /\ settled'[1].nav.id = Head(pendingNavigations).id
         /\ pendingNavigations' = Tail(pendingNavigations)
    /\ (Len(pendingNavigations') > Len(pendingNavigations)) => last'.op = "navigate"

\* C25 as stated: an entry is created only by a hash-mode navigate and is
\* removed and resolved only by the handling of a location-change
\* notification, which takes the oldest one.
C25_Original == [][ConsumedByEvent]_vars

\* the same with init() counted among the consumers: whatever runs
\* handleUrlChange takes the oldest entries, in order
ConsumedByHandler ==
  urlType = "hash" =>
    /\ last'.op \notin {"event", "init"} =>
         /\ settled' = <<>>
         /\ PendingIds(pendingNavigations) \subseteq PendingIds(pendingNavigations')
    /\ \A k \in 1..Len(settled') : settled'[k].nav.id = pendingNavigations[k].id
    /\ last'.op \in {"event", "init"} =>
         pendingNavigations' = SubSeq(pendingNavigations, Len(settled') + 1,
                                      Len(pendingNavigations))
    /\ (Len(pendingNavigations') > Len(pendingNavigations)) => last'.op = "navigate"

OldestFirst == [][ConsumedByHandler]_vars

(***************************************************************************)
(* History mode: navigate and its deferred task.                           *)
(***************************************************************************)
\* navigate returns a pending promise: the location is the target already,
\* the state is the one before, nothing but onMiss has been called, no
\* promise is resolved, and the task of the navigation is the newest one
NavigateDefers ==
  (urlType = "history" /\ last'.op = "navigate" /\ last'.outcome = "pending") =>
    /\ location' = last'.path
    /\ currState' = currState
    /\ \A k \in 1..Len(trace') : trace'[k].cb = "onMiss"
    /\ settled' = <<>>
    /\ Len(timers') = Len(timers) + 1
    /\ timers'[Len(timers')].id = last'.id
    /\ SubSeq(timers', 1, Len(timers)) = timers

\* the activation, its callbacks and the resolution of the promise are the
\* deferred task's
TaskActivates ==
  (urlType = "history" /\ last'.op = "timer") =>
    /\ Head(timers).id = last'.id
    /\ trace'[1].cb = "activateRoute"
    /\ trace'[1].path = Head(timers).path
    /\ Len(settled') = 1
    /\ settled'[1].nav.id = last'.id
    /\ settled'[1].state = currState'
    /\ location' = location

\* C26: in history mode navigate changes the location at once (pushState)
\* and activates nothing at once: when it returns the state is unchanged
\* and no hook and no subscriber has been called; the activation, the
\* callbacks and the resolution of the promise belong to the deferred task
\* that runs later.
C26_DeferredActivation == [][NavigateDefers /\ TaskActivates]_vars

\* C26, its case: navigate has returned on an initialized router with a
\* subscriber; the location is the target, the active route is not yet
C26_Witness ==
  /\ urlType = "history"
  /\ last.op = "navigate"
  /\ last.outcome = "pending"
  /\ listeners > 0
  /\ Len(subscribers) = 1
  /\ location = last.path
  /\ currState.route # NoRoute
  /\ currState.route # timers[Len(timers)].route
  /\ trace = <<>>

(***************************************************************************)
(* Failed navigations.                                                     *)
(***************************************************************************)
\* the navigate call of the step threw, or returned a rejected promise
NavigateFails == last'.op = "navigate" /\ last'.outcome \in {"threw", "rejected"}

\* nothing has changed and nothing but onMiss has been called
NothingHappened ==
  /\ UNCHANGED <<currState, location, pendingNavigations, timers, notifications,
                 subscribers, listeners, issued>>
  /\ settled' = <<>>
  /\ \A k \in 1..Len(trace') : trace'[k].cb = "onMiss"

\* C27: a navigate / navigateAny call that fails (invalid path, no route
\* and no usable fallback) leaves the state, the location and the pending
\* navigations as they were, schedules no task and calls no onEnter, no
\* onExit, no onParamChange and no subscriber.
C27_FailedNavigate == [][NavigateFails => NothingHappened]_vars

\* C27, its case: on an initialized router with a subscriber and a
\* navigation pending, navigate is given a path whose query holds '//' and
\* which the fallback route takes: the promise is rejected
C27_Witness ==
  /\ last.op = "navigate"
  /\ last.outcome = "rejected"
  /\ last.error.kind = "Invalid path"
  /\ listeners > 0
  /\ currState.route # NoRoute
  /\ Len(subscribers) = 1
  /\ Len(timers) + Len(pendingNavigations) > 0

\* C27, its other case: the path has no route and there is no fallback
C27_WitnessNotFound ==
  /\ last.op = "navigate"
  /\ last.outcome = "threw"
  /\ last.error.kind = "No route found for path"
  /\ currState.route # NoRoute
  /\ Len(trace) = 1

(***************************************************************************)
(* Bursts of navigations in history mode.  Every navigation issued has one *)
(* task; the tasks waiting are the newest navigations; a task that has     *)
(* just run is settled[1].nav and the state it found is trace[1].seen.     *)
(***************************************************************************)
\* the positions in the trace of the calls of the hook cb
HookCalls(cb) == {k \in 1..Len(trace) : trace[k].cb = cb}

\* the tasks waiting are those of the navigations issued last, in issue
\* order, and the task that ran is the one issued just before them
NoTaskSkipped ==
  /\ \A j \in 1..Len(timers) : timers[j].id = issued - Len(timers) + j
  /\ settled[1].nav.id = issued - Len(timers)

\* the task found another route active than the one it goes to
LeavesForAnother ==
  /\ trace[1].seen.route # NoRoute
  /\ trace[1].seen.route # settled[1].nav.route

\* one onExit of the route left, one onEnter of the route of the task, and
\* the state is the target of the task
OneExitOneEnter ==
  /\ Cardinality(HookCalls("route.onExit")) = 1
  /\ \A k \in HookCalls("route.onExit") : trace[k].who = trace[1].seen.route
  /\ Cardinality(HookCalls("route.onEnter")) = 1
  /\ \A k \in HookCalls("route.onEnter") : trace[k].who = settled[1].nav.route
  /\ \A j \in HookCalls("route.onExit") : \A k \in HookCalls("route.onEnter") : j < k
  /\ currState.route = settled[1].nav.route
  /\ currState.path = settled[1].nav.path

\* C28: in history mode every navigation issued has its own deferred task
\* and the tasks run one by one in issue order, none skipped or merged; a
\* task whose target is another route than the one active when it runs
\* calls exactly one route onExit (of the route left) and one route onEnter
\* (of its target) and leaves the state at its target.  So N navigations
\* issued back to back, each to another route than the one before, make N
\* onExit and N onEnter calls, and the state is the last target when the
\* last task has run.
C28_BurstOfNavigations ==
  TaskRan =>
    /\ Len(settled) = 1
    /\ NoTaskSkipped
    /\ LeavesForAnother => OneExitOneEnter
    /\ timers = <<>> => settled[1].nav.id = issued

\* C28, its case: two navigations were issued back to back on a router
\* with an active route; the task of the first has run, left that route
\* and entered its own, and the task of the second waits to leave it
C28_Witness ==
  /\ TaskRan
  /\ issued = 2
  /\ settled[1].nav.id = 1
  /\ LeavesForAnother
  /\ Len(timers) = 1
  /\ timers[1].route # currState.route
  /\ Cardinality(HookCalls("route.onExit")) = 1
  /\ Cardinality(HookCalls("route.onEnter")) = 1

(***************************************************************************)
(* The query component and matching.                                       *)
(***************************************************************************)
\* query components to put after the clean path
OtherQueries == { <<"x", "=", "1">>, <<"i", "=", "9">>, <<"x">>, <<"a", "=", "/", "b", "?", "c">> }

\* r is the match the last navigate call got: same route, same miss, same
\* value for every path parameter of the route
SameMatch(r) ==
  /\ r.status = "ok"
  /\ r.route = Queued.route
  /\ r.missed = Queued.missed
  /\ ~r.missed =>
       \A n \in 1..Len(pathParamKeys(cleanPathPart(routes[r.route].path))) :
         LET key == pathParamKeys(cleanPathPart(routes[r.route].path))[n]
         IN  key \in DOMAIN r.params /\ key \in DOMAIN Queued.params
               /\ r.params[key] = Queued.params[key]

\* the location navigate has set is the whole path, query included
LocationIs(path) ==
  IF urlType = "history" THEN location = path ELSE location = <<"#">> \o path

\* C29: the route and the path parameters navigate gets for a path are
\* those of the part before the first '?': the path without its query and
\* the path with any other query give the same match; the location
\* navigate sets is the whole path with its query.
C29_QueryIgnoredByMatching ==
  (last.op = "navigate" /\ last.outcome = "pending") =>
    /\ SameMatch(getRouteWithParams(routes, fallbackPath, SplitAt(last.path, "?", 1)))
    /\ \A q \in OtherQueries :
         SameMatch(getRouteWithParams(routes, fallbackPath,
                                      SplitAt(last.path, "?", 1) \o <<"?">> \o q))
    /\ LocationIs(last.path)

\* C29, its case: navigate('/a/?x=1') with '/a/:i' declared before '/a':
\* the route is '/a', the one of '/a/', and the location keeps '?x=1'
C29_Witness ==
  /\ last.op = "navigate"
  /\ last.outcome = "pending"
  /\ last.path = <<"/", "a", "/", "?", "x", "=", "1">>
  /\ Len(routes) = 2
  /\ routes[1].path = <<"/", "a", "/", ":", "i">>
  /\ routes[2].path = <<"/", "a">>
  /\ Queued.route = 2
  /\ LocationIs(last.path)

(***************************************************************************)
(* Location changes made by the user.                                      *)
(***************************************************************************)
\* a popstate / hashchange event has been delivered to a registered handler
EventHandled == last.op = "event" /\ listeners > 0

\* the first activateRoute call of the last operation
FirstActivation == Min(Activations)

\* the handler has activated what the matcher result r says for path, by
\* the rules of activateRoute, and the state is the one of r
ActivatedAs(path, r) ==
  /\ Activations # {}
  /\ trace[FirstActivation].path = path
  /\ trace[FirstActivation].who = r.route
  /\ trace[FirstActivation].params = r.params
  /\ <<trace[FirstActivation]>> \o CallsOf(FirstActivation)
       = activateRoute(StateBefore(FirstActivation), subscribers, path, r.route, r.params).trace
  /\ StateAfter(FirstActivation)
       = activateRoute(StateBefore(FirstActivation), subscribers, path, r.route, r.params).state
  /\ RouteChange(FirstActivation) =>
       /\ Calls("options.onEnter", r.route) >= 1
       /\ Calls("route.onEnter", r.route) >= 1
       /\ StateBefore(FirstActivation).route # NoRoute =>
            /\ Calls("options.onExit", StateBefore(FirstActivation).route) >= 1
            /\ Calls("route.onExit", StateBefore(FirstActivation).route) >= 1
  /\ ParamChange(FirstActivation) =>
       /\ Calls("options.onParamChange", r.route) >= 1
       /\ Calls("route.onParamChange", r.route) >= 1
  /\ currState.route = r.route
  /\ currState.params = r.params
  /\ currState.path = path \/ Repeat(FirstActivation)

\* C30: a popstate / hashchange event delivered to the handler init()
\* registered is handled with the location of the page at that moment; when
\* the matcher finds a route for it (or the fallback), that route is
\* activated with the params of the location by the rules of activateRoute
\* (exit and enter for another route, onParamChange for other params,
\* nothing for a repeat), and afterwards the state has that route and those
\* params, and the path of the location unless the activation was a repeat.
C30_ExternalChange ==
  EventHandled =>
    /\ last.path = getPath(urlType, location)
    /\ getRouteWithParams(routes, fallbackPath, last.path).status = "ok" =>
         ActivatedAs(last.path, getRouteWithParams(routes, fallbackPath, last.path))

\* C30, its case: no navigate was called; the router was initialized on a
\* route, the user went to '/u/2', and the event has made the handler leave
\* that route and enter '/u/:i?q' with i = '2'
C30_Witness ==
  /\ EventHandled
  /\ issued = 0
  /\ extChanges = 1
  /\ last.path = P_u2
  /\ StateBefore(FirstActivation).route \notin {NoRoute, currState.route}
  /\ Calls("route.onExit", StateBefore(FirstActivation).route) = 1
  /\ Calls("route.onEnter", currState.route) = 1
  /\ currState.route = FindRoute(routes, <<"/", "u", "/", ":", "i", "?", "q">>)
  /\ currState.params[<<"i">>] = <<"2">>
  /\ currState.path = P_u2

\* C30, its other case: the same in hash mode with a subscriber listening
C30_WitnessHash ==
  /\ C30_Witness
  /\ urlType = "hash"
  /\ location = <<"#">> \o P_u2
  /\ Len(subscribers) = 1
  /\ trace[Len(trace)].cb = "subscriber"

(***************************************************************************)
(* A fallback path that is no route.                                       *)
(***************************************************************************)
\* options.fallbackPath is set and no route has it as its path
FallbackMissing == Truthy(fallbackPath) /\ FindRoute(routes, fallbackPath) = NoRoute

\* the last operation is navigate with a valid path no pattern matches
NavigatedToUnmatched ==
  /\ last.op = "navigate"
  /\ isValidPath(last.path)
  /\ Matching(SplitAt(last.path, "?", 1)) = {}

\* C31: with a fallbackPath that is the path of no route, navigate to a
\* valid path that matches no route calls onMiss once with the clean path
\* and throws 'No route found for path' naming the clean path and the
\* fallback path; no route is activated, nothing is queued or resolved and
\* the state is the one onMiss saw.
C31_MissingFallback ==
  (FallbackMissing /\ NavigatedToUnmatched) =>
    /\ last.outcome = "threw"
    /\ last.id = 0
    /\ last.error.kind = "No route found for path"
    /\ last.error.path = SplitAt(last.path, "?", 1)
    /\ last.error.fallback = fallbackPath
    /\ trace = <<OnMissEvent(SplitAt(last.path, "?", 1), currState)>>
    /\ Activations = {}
    /\ settled = <<>>
    /\ \A k \in 1..Len(timers) : timers[k].path # last.path
    /\ \A k \in 1..Len(pendingNavigations) : pendingNavigations[k].path # last.path

\* C31, its case: a router on route '/a' with fallbackPath '/4', which is
\* no route, is navigated to '/z'
C31_Witness ==
  /\ FallbackMissing
  /\ NavigatedToUnmatched
  /\ last.path = P_z
  /\ last.outcome = "threw"
  /\ last.error.fallback = P_missing
  /\ listeners > 0
  /\ currState.path = P_a

(***************************************************************************)
(* Misses while the fallback route is active: routers with the fallback    *)
(* route '/n', navigated to two paths that are no route and to '/a'.       *)
(***************************************************************************)
MissPaths == {P_z, P_missing, P_a}

InitMisses ==
  /\ routes = Routes
  /\ urlType \in {"hash", "history"}
  /\ fallbackPath = P_n
  /\ Created

NextMisses ==
  \/ InitRouter
  \/ \E path \in MissPaths : Navigate(path)
  \/ RunTimer
  \/ LocationChangeEvent
  \/ \E s \in Callbacks : Subscribe(s)

SpecMisses == InitMisses /\ [][NextMisses]_vars

FallbackRoute == FindRoute(routes, fallbackPath)

\* the deferred task of a navigation that missed has run, or the handler of
\* an event has run for a location that is no route
MissActivated ==
  \/ last.op = "timer" /\ settled[1].nav.missed
  \/ EventHandled /\ trace # <<>> /\ trace[1].cb = "onMiss"

\* C32: navigate to a valid path that is no route while the fallback route
\* is active calls onMiss with the clean path and is accepted; when the
\* fallback route is activated again for it (by the deferred task, or by
\* the handler of the event for that location, which calls onMiss once
\* more) no onEnter, onExit or onParamChange is called and no subscriber
\* is notified, the state stays as it was, and what is resolved is
\* resolved with the fallback route and empty params.
C32_RepeatedMiss ==
  /\ (NavigatedToUnmatched /\ FallbackRoute # NoRoute /\ currState.route = FallbackRoute) =>
       /\ last.outcome = "pending"
       /\ trace = <<OnMissEvent(SplitAt(last.path, "?", 1), currState)>>
       /\ Queued.missed
       /\ Queued.route = FallbackRoute
       /\ Queued.params = emptyParams
  /\ (MissActivated /\ StateBefore(FirstActivation).route = FallbackRoute) =>
       /\ \A k \in 1..Len(trace) : trace[k].cb \in {"onMiss", "activateRoute"}
       /\ currState = StateBefore(FirstActivation)
       /\ \A k \in 1..Len(settled) :
            /\ settled[k].state.route = FallbackRoute
            /\ settled[k].state.params = emptyParams

\* C32, its case in history mode: '/z' had missed and the fallback route was
\* entered for it; the second navigation, to '/4', has been resolved with a
\* subscriber listening
C32_Witness ==
  /\ urlType = "history"
  /\ last.op = "timer"
  /\ last.id = 2
  /\ settled[1].nav.path = P_missing
  /\ settled[1].nav.missed
  /\ settled[1].state.route = FallbackRoute
  /\ StateBefore(FirstActivation).path = P_z
  /\ Len(subscribers) = 1
  /\ Len(trace) = 1

\* C32, its case in hash mode: the event of the second navigation has been
\* handled, onMiss has been called for '/4' by navigate and by the handler
C32_WitnessHash ==
  /\ urlType = "hash"
  /\ EventHandled
  /\ last.path = P_missing
  /\ Len(settled) = 1
  /\ settled[1].nav.path = P_missing
  /\ settled[1].nav.onMissCalls = 2
  /\ settled[1].state.route = FallbackRoute
  /\ StateBefore(FirstActivation).path = P_z
  /\ Len(subscribers) = 1
  /\ Len(trace) = 2

(***************************************************************************)
(* Params of the active route: routers with the route '/p/:i?i&q&t',       *)
(* navigated to paths of that route that differ in the query, declared or  *)
(* not, and in the trailing slash.                                         *)
(***************************************************************************)
Q_q5 == <<"q", "=", "5">>
Q_q6 == <<"q", "=", "6">>
Q_t5 == <<"t", "=", "5">>
Q_x1 == <<"x", "=", "1">>
Q_i9 == <<"i", "=", "9">>

P_p1 == <<"/", "p", "/", "1">>

ParamPaths ==
  { P_p1,
    P_p1 \o <<"?">> \o Q_q5,
    P_p1 \o <<"?">> \o Q_q6,
    P_p1 \o <<"?">> \o Q_t5,
    P_p1 \o <<"?">> \o Q_q5 \o <<"&">> \o Q_t5,
    P_p1 \o <<"?">> \o Q_t5 \o <<"&">> \o Q_q5,
    P_p1 \o <<"?">> \o Q_x1,
    P_p1 \o <<"?">> \o Q_i9,
    P_p1 \o <<"/">> }

InitParams ==
  /\ routes = ExtractRoutes
  /\ urlType \in {"hash", "history"}
  /\ fallbackPath = Undefined
  /\ Created

\* every path of ParamPaths is accepted, so navigate is a step while
\* issued < MaxNav
NextParams ==
  \/ InitRouter
  \/ issued < MaxNav /\ \E path \in ParamPaths : Navigate(path)
  \/ RunTimer
  \/ LocationChangeEvent
  \/ \E s \in Callbacks : Subscribe(s)

SpecParams == InitParams /\ [][NextParams]_vars

\* activateRoute call i is for the route that is active
SameRoute(i) == StateBefore(i).route # NoRoute /\ StateBefore(i).route = trace[i].who

\* the same keys, and the same value for every key
EqualParams(p1, p2) == DOMAIN p1 = DOMAIN p2 /\ \A key \in DOMAIN p1 : p1[key] = p2[key]

\* call i of activateRoute has reported a change of params
ParamChangeReported(i) ==
  /\ Len(CallsOf(i)) >= 2
  /\ CallsOf(i)[1].cb = "options.onParamChange"
  /\ CallsOf(i)[2].cb = "route.onParamChange"

\* C33: when activateRoute is called for the route that is active, the new
\* params count as equal to the current ones exactly when both have the
\* same keys and every key has the same value in both (whichever of the two
\* is looked at first, whatever the order of the names in the URL); a param
\* change is reported exactly when they are not equal, and nothing is
\* called when they are.
C33_ParamEquality ==
  \A i \in Activations :
    SameRoute(i) =>
      /\ shallowEqual(trace[i].params, StateBefore(i).params)
           = EqualParams(trace[i].params, StateBefore(i).params)
      /\ shallowEqual(StateBefore(i).params, trace[i].params)
           = EqualParams(trace[i].params, StateBefore(i).params)
      /\ ParamChangeReported(i) = ~EqualParams(trace[i].params, StateBefore(i).params)
      /\ (CallsOf(i) = <<>>) = EqualParams(trace[i].params, StateBefore(i).params)

\* C33, its case: the new params have as many keys as the current ones but
\* not the same ({i, t} after {i, q}); a change is reported
C33_Witness ==
  \E i \in Activations :
    /\ SameRoute(i)
    /\ DOMAIN trace[i].params = {<<"i">>, <<"t">>}
    /\ DOMAIN StateBefore(i).params = {<<"i">>, <<"q">>}
    /\ ParamChangeReported(i)

\* C33, its other case: the same keys and values from URLs that name them in
\* another order ('?t=5&q=5' after '?q=5&t=5'); nothing is reported
C33_WitnessOrder ==
  \E i \in Activations :
    /\ SameRoute(i)
    /\ trace[i].path = P_p1 \o <<"?">> \o Q_t5 \o <<"&">> \o Q_q5
    /\ StateBefore(i).path = P_p1 \o <<"?">> \o Q_q5 \o <<"&">> \o Q_t5
    /\ CallsOf(i) = <<>>
    /\ Len(subscribers) = 1

(***************************************************************************)
(* The state and the matcher.                                              *)
(***************************************************************************)
\* route and params of the state are what the matcher result r has
StateIsMatch(r) ==
  /\ r.status = "ok"
  /\ currState.route = r.route
  /\ EqualParams(currState.params, r.params)
  /\ r.missed => (currState.route = FallbackRoute /\ currState.params = emptyParams)
  /\ r.missed = (Matching(SplitAt(currState.path, "?", 1)) = {})

\* C34: in every state the route of the state is null exactly when its
\* path is null, and when the path is not null the route and the params
\* of the state are those the matcher yields for that path: the fallback
\* route with empty params when no pattern matches it.
C34_StateConsistent ==
  /\ (currState.route = NoRoute) = (currState.path = Null)
  /\ currState.path # Null =>
       StateIsMatch(getRouteWithParams(routes, fallbackPath, currState.path))

\* C34, its case: the state is the one of an earlier activation, the page
\* has moved on to a location that is no route and has no fallback, and
\* the handler of the event has thrown
C34_Witness ==
  /\ last.op = "event"
  /\ listeners > 0
  /\ fallbackPath = Undefined
  /\ getPath(urlType, location) = P_z
  /\ currState.path = P_u1q5
  /\ currState.params[<<"q">>] = <<"5">>

\* C34, its other case: the fallback route is active for a path that is no
\* route
C34_WitnessFallback ==
  /\ currState.path = P_z
  /\ currState.route = FallbackRoute
  /\ currState.route # NoRoute
  /\ currState.params = emptyParams

(***************************************************************************)
(* Bracketing of the lifecycle hooks.  What the hooks of one level (the    *)
(* global ones of the options, or the ones of the routes) have been told   *)
(* so far is a view: the route entered and not exited (NoRoute when there  *)
(* is none) with the params delivered last for it.                         *)
(***************************************************************************)
View(route, params) == [ok |-> TRUE, route |-> route, params |-> params]

Broken == [ok |-> FALSE, route |-> NoRoute, params |-> emptyParams]

RECURSIVE Bracketed(_, _, _, _)
\* the view after the calls events[k..] of the hooks of level lv, Broken
\* when one of them does not fit the view it finds: onEnter with a route
\* entered, onExit for another route or with other params than the view
\* has, onParamChange for another route or with other previous params
Bracketed(lv, view, events, k) ==
  IF k > Len(events) \/ ~view.ok THEN view
  ELSE IF events[k].cb = lv \o ".onEnter"
    THEN Bracketed(lv,
                   IF view.route = NoRoute
                     THEN View(events[k].who, events[k].params) ELSE Broken,
                   events, k + 1)
  ELSE IF events[k].cb = lv \o ".onExit"
    THEN Bracketed(lv,
                   IF /\ view.route # NoRoute
                      /\ events[k].who = view.route
                      /\ EqualParams(events[k].params, view.params)
                     THEN View(NoRoute, emptyParams) ELSE Broken,
                   events, k + 1)
  ELSE IF events[k].cb = lv \o ".onParamChange"
    THEN Bracketed(lv,
                   IF /\ view.route # NoRoute
                      /\ events[k].who = view.route
                      /\ EqualParams(events[k].prev, view.params)
                     THEN View(events[k].who, events[k].params) ELSE Broken,
                   events, k + 1)
  ELSE Bracketed(lv, view, events, k + 1)

\* the calls of an operation fit the view the state had before it, and
\* leave the view the state has after it
KeepsBrackets(lv, before, after, events) ==
  /\ Bracketed(lv, View(before.route, before.params), events, 1).ok
  /\ Bracketed(lv, View(before.route, before.params), events, 1).route = after.route
  /\ EqualParams(Bracketed(lv, View(before.route, before.params), events, 1).params,
                 after.params)

BracketStep ==
  /\ KeepsBrackets("options", currState, currState', trace')
  /\ KeepsBrackets("route", currState, currState', trace')

\* C35: over every sequence of operations the calls of onEnter and onExit
\* alternate, beginning with onEnter; every onExit is for the route of the
\* onEnter before it, with the params delivered last for that route by
\* onEnter or onParamChange; onParamChange is called only for the route
\* that is entered, with those params as the previous ones.  The route
\* entered and its params are route and params of the state between any
\* two operations, nothing being entered at the start.
C35_LifecycleBrackets ==
  /\ (currState.route = NoRoute /\ trace = <<>>)
  /\ [][BracketStep]_vars

\* C35, its case: an operation has found a route entered with params
\* delivered by an earlier onParamChange, has called onExit with them and
\* then onEnter for another route
C35_Witness ==
  /\ Len(trace) >= 5
  /\ trace[2].cb = "options.onExit"
  /\ trace[3].cb = "route.onExit"
  /\ trace[4].cb = "options.onEnter"
  /\ trace[5].cb = "route.onEnter"
  /\ trace[2].who = FindRoute(routes, <<"/", "u", "/", ":", "i", "?", "q">>)
  /\ trace[2].params = trace[1].seen.params
  /\ trace[1].seen.path = P_u2
  /\ extChanges > 0
  /\ issued > 0
  /\ currState.route = trace[4].who

(***************************************************************************)
(* The state and the location when nothing is outstanding.                 *)
(***************************************************************************)
\* no deferred task and no event is waiting; init() has registered the
\* handler and a route has been activated
Quiescent ==
  /\ timers = <<>>
  /\ notifications = 0
  /\ listeners > 0
  /\ currState.route # NoRoute

\* the matcher has a route for the location of the page
LocationHasRoute ==
  getRouteWithParams(routes, fallbackPath, getPath(urlType, location)).status = "ok"

LocationRoute == getRouteWithParams(routes, fallbackPath, getPath(urlType, location)).route

\* C36 as stated: whenever no deferred task and no notification is
\* outstanding, after an activation, the route of the state is the route
\* the matcher yields for the location of the page, also when in history
\* mode a popstate event has come between navigate and its deferred task.
C36_Original ==
  (Quiescent /\ LocationHasRoute) => currState.route = LocationRoute

\* the same for routers whose page is moved by navigate alone: it holds on
\* Spec, where the user does not change the location
QuiescentWithoutUser ==
  (extChanges = 0 /\ Quiescent /\ LocationHasRoute) => currState.route = LocationRoute

(***************************************************************************)
(* init() called again: every call activates the route of the location and *)
(* registers one more listener.                                            *)
(***************************************************************************)
InitAgain ==
  /\ listeners \in 1..MaxInit
  /\ InitAt(getPath(urlType, location))
  /\ UNCHANGED <<config, location, subscribers, timers, notifications, issued, extChanges>>

ReinitPaths == {P_a, P_u1}

InitReinit ==
  /\ routes = Routes
  /\ urlType \in {"hash", "history"}
  /\ fallbackPath \in {Undefined, P_n}
  /\ Created

NextReinit ==
  \/ InitRouter
  \/ InitAgain
  \/ \E path \in ReinitPaths : Navigate(path)
  \/ RunTimer
  \/ LocationChangeEvent
  \/ \E path \in ExtPaths : ExternalChange(path)
  \/ \E s \in Callbacks : Subscribe(s)

SpecReinit == InitReinit /\ [][NextReinit]_vars

\* C37 as stated: one popstate / hashchange event makes at most one call of
\* activateRoute and resolves at most one pending navigation, also after
\* init() has been called more than once.
C37_Original ==
  last.op = "event" => (Cardinality(Activations) <= 1 /\ Len(settled) <= 1)

\* the same for a router on which init() was called once: it holds
OneListenerOneActivation ==
  (last.op = "event" /\ listeners <= 1) =>
    (Cardinality(Activations) <= 1 /\ Len(settled) <= 1)

\* what an event does after n calls of init(): n calls of activateRoute
\* when the location has a route, and as many pending navigations resolved
\* as there are, up to n
ActivationPerListener ==
  (last.op = "event" /\ LocationHasRoute) =>
    /\ Cardinality(Activations) = listeners
    /\ Len(settled) <= listeners
    /\ (pendingNavigations # <<>> => Len(settled) = listeners)

(***************************************************************************)
(* init() that fails.                                                      *)
(***************************************************************************)
\* init() has run, called by the application or by createRouter with
\* autoInit, on a router whose routes are all valid
InitCalled ==
  /\ last.op \in {"init", "createRouter"}
  /\ last.path # Null
  /\ \A i \in 1..Len(routes) : ~IncludesDoubleSlash(routes[i].path)

\* init() has thrown what the matcher result r for the location says
FailedAs(r) ==
  /\ last.outcome = "threw"
  /\ last.error = r.error
  /\ r.status = "invalid" =>
       (last.error.kind = "Invalid path" /\ trace = <<>>)
  /\ r.status = "notfound" =>
       /\ last.error.kind = "No route found for path"
       /\ trace = <<OnMissEvent(r.cleanPath, NoState)>>
  /\ currState = NoState
  /\ settled = <<>>
  /\ listeners = 0

\* C38: when the location init() finds is invalid, or matches no route while
\* no fallback route can be used, init() throws the error of the matcher to
\* its caller (the application, or createRouter when autoInit is set); the
\* state stays {path: null, route: null, params: {}}, no onEnter and no
\* subscriber is called (onMiss is, for a valid location), nothing is
\* resolved and no listener for location changes is registered.  In every
\* other case init() returns normally.
C38_InitFails ==
  InitCalled =>
    IF getRouteWithParams(routes, fallbackPath, getPath(urlType, location)).status = "ok"
      THEN last.outcome = "ok" /\ listeners > 0
      ELSE FailedAs(getRouteWithParams(routes, fallbackPath, getPath(urlType, location)))

\* C38, its case: createRouter with autoInit on a page whose location is no
\* route, with a fallbackPath that is no route either
C38_Witness ==
  /\ last.op = "createRouter"
  /\ autoInit
  /\ last.outcome = "threw"
  /\ last.error.kind = "No route found for path"
  /\ last.error.fallback = P_a
  /\ Len(trace) = 1
  /\ listeners = 0

\* C38, its other case: init() called by the application on a page whose
\* location has an empty segment, with a fallback route
C38_WitnessInvalid ==
  /\ last.op = "init"
  /\ last.outcome = "threw"
  /\ last.error.kind = "Invalid path"
  /\ last.path = P_aab
  /\ FallbackRoute # NoRoute
  /\ currState = NoState
  /\ listeners = 0

(***************************************************************************)
(* Targets of the active route that differ in the query or in the          *)
(* trailing slash.                                                         *)
(***************************************************************************)
\* what the query string of path has for name, Null when it has nothing
ValueIn(path, name) ==
  IF Truthy(SplitAt(path, "?", 2)) THEN SearchParamsGet(SplitAt(path, "?", 2), name)
  ELSE Null

\* the part before '?', without a trailing slash
Segments(path) == StripSlash(SplitAt(path, "?", 1))

\* the query parameter names the route of call i declares, and those of
\* them that are not names of its path parameters as well
Declared(i) == Names(getQueryParamKeys(routes[trace[i].who].path))

DeclaredQueryOnly(i) ==
  Declared(i) \ Names(pathParamKeys(cleanPathPart(routes[trace[i].who].path)))

\* the target of call i and the path of the state differ in the value or
\* the presence of one of names, the part before '?' being the same
DiffersIn(i, names) ==
  /\ Segments(trace[i].path) = Segments(StateBefore(i).path)
  /\ \E name \in names :
       ValueIn(trace[i].path, name) # ValueIn(StateBefore(i).path, name)

\* they differ, but in none of names and in no segment
DiffersOutside(i, names) ==
  /\ trace[i].path # StateBefore(i).path
  /\ Segments(trace[i].path) = Segments(StateBefore(i).path)
  /\ \A name \in names :
       ValueIn(trace[i].path, name) = ValueIn(StateBefore(i).path, name)

\* call i is a param change: both onParamChange hooks, the subscribers, and
\* the state has the path and the params of the target
IsParamChange(i) ==
  /\ ParamChangeReported(i)
  /\ Len(CallsOf(i)) = 2 + Len(subscribers)
  /\ \A k \in 3..Len(CallsOf(i)) : CallsOf(i)[k].cb = "subscriber"
  /\ StateAfter(i).route = StateBefore(i).route
  /\ StateAfter(i).path = trace[i].path
  /\ EqualParams(StateAfter(i).params, trace[i].params)
  /\ ~EqualParams(StateAfter(i).params, StateBefore(i).params)

\* call i is a no-op: nothing is called, the state keeps its path
IsNoOp(i) ==
  /\ CallsOf(i) = <<>>
  /\ StateAfter(i) = StateBefore(i)
  /\ StateAfter(i).path # trace[i].path

\* C39 as stated: within the active route a target that differs from the
\* current path in the value or the presence of a declared query parameter
\* is a param change, and a target that differs in undeclared query
\* parameters or in the trailing slash only is a no-op.
C39_Original ==
  \A i \in Activations :
    SameRoute(i) =>
      /\ DiffersIn(i, Declared(i)) => IsParamChange(i)
      /\ DiffersOutside(i, Declared(i)) => IsNoOp(i)

\* C39: within the active route a target that differs from the path of the
\* state in the value or the presence of a declared query parameter whose
\* name is not a path parameter of the route is a param change
\* (onParamChange, subscribers, path and params of the state updated); a
\* target that differs only in undeclared query parameters, in a declared
\* query parameter named as a path parameter, or in the trailing slash is a
\* no-op: nothing is called and the state keeps its path.
C39_QueryChanges ==
  \A i \in Activations :
    SameRoute(i) =>
      /\ DiffersIn(i, DeclaredQueryOnly(i)) => IsParamChange(i)
      /\ DiffersOutside(i, DeclaredQueryOnly(i)) => IsNoOp(i)

\* C39, its case: '/p/1?q=5' is active and '/p/1' is activated, with a
\* subscriber listening: the declared q is no longer present
C39_Witness ==
  \E i \in Activations :
    /\ SameRoute(i)
    /\ StateBefore(i).path = P_p1 \o <<"?">> \o Q_q5
    /\ trace[i].path = P_p1
    /\ IsParamChange(i)
    /\ Len(subscribers) = 1
    /\ currState.path = P_p1

\* C39, its other cases: no-ops for an undeclared query parameter, for a
\* trailing slash, and for the declared query parameter i, which is a path
\* parameter of the route
C39_WitnessUndeclared ==
  \E i \in Activations :
    SameRoute(i) /\ StateBefore(i).path = P_p1 /\ IsNoOp(i)
      /\ trace[i].path = P_p1 \o <<"?">> \o Q_x1

C39_WitnessSlash ==
  \E i \in Activations :
    SameRoute(i) /\ StateBefore(i).path = P_p1 /\ IsNoOp(i)
      /\ trace[i].path = P_p1 \o <<"/">>

C39_WitnessShadowed ==
  \E i \in Activations :
    SameRoute(i) /\ StateBefore(i).path = P_p1 /\ IsNoOp(i)
      /\ trace[i].path = P_p1 \o <<"?">> \o Q_i9

====
